---- MODULE Spec2Model ----
(***************************************************************************)
(* Model of the wallet extension: the popup's vault life cycle             *)
(* (IndexPopup, CryptoService, StorageService, AccountService) and the     *)
(* transaction ledger with its status monitor (TransactionService,         *)
(* TransactionMonitorService, TransactionSyncService).                     *)
(***************************************************************************)
EXTENDS Integers, Sequences, FiniteSets, TLC

(***************************************************************************)
(* Bounds and input sets                                                   *)
(***************************************************************************)
MaxAccounts == 2
MaxInFlight == 2
MaxLedger == 2
MaxChainTxs == 2
MaxListeners == 1
\* subscribers per event where the order of the calls of one emission matters
MaxEmitListeners == 2

\* largest base fee sample, in wei
MaxBaseFee == 20

\* calls of the sync service in flight, and the height the chain grows to
MaxSyncCalls == 2
MaxBlock == 3
\* the clock runs up to MaxNow seconds, in steps of ClockStep seconds
MaxNow == 60
ClockStep == 15
\* newAttempts >= 5, attempts >= 5
MaxAttempts == 5
\* const lockoutDuration = 30 * 1000, counted in seconds
lockoutDuration == 30

Hashes == {"h1", "h2"}
Callbacks == {"cb1", "cb2"}
\* the callbacks that throw when they are called
ThrowingCallbacks == {"cb2"}

Passwords == {"p1", "p2"}
Mnemonics == {"m1", "m2"}
ImportKeys == {"k2", "k3"}
Salts == {"s1", "s2"}
IVs == {"iv1"}

ImportedPlaceholder == "imported-account"

\* the values that are secret: recovery phrases and private keys
Secrets == Mnemonics \cup {"k1", "k2", "k3"}

(***************************************************************************)
(* CryptoService                                                           *)
(***************************************************************************)
\* HD derivation at m/44'/60'/0'/0/0: deterministic in the mnemonic.
derivePrivateKeyFromMnemonic(m) ==
    CASE m = "m1" -> "k1"
      [] m = "m2" -> "k2"
      [] OTHER -> "invalid"

\* new ethers.Wallet(privateKey).address; throws for a malformed key.
privateKeyToAddress(k) ==
    CASE k = "k1" -> "a1"
      [] k = "k2" -> "a2"
      [] k = "k3" -> "a3"
      [] OTHER -> "throw"

\* PBKDF2(password, salt): the key is determined by the pair.
PBKDF2(password, salt) == <<password, salt>>

NoCipher == [encryptedData |-> [pt |-> "", key |-> <<"", "">>, iv |-> ""],
             salt |-> "", iv |-> ""]

\* AES-CBC under the derived key; the ciphertext is opaque and is described
\* by the plaintext, key and iv that produced it.
encrypt(data, password, salt, iv) ==
    [encryptedData |-> [pt |-> data, key |-> PBKDF2(password, salt), iv |-> iv],
     salt |-> salt, iv |-> iv]

\* A faulty variant that hands back the text without the key having to match.
decryptUnchecked(encryptedData, password, salt, iv) ==
    [ok |-> TRUE, text |-> encryptedData.pt]

\* Decryption under another key or iv yields bytes that do not decode
\* (empty text); an empty decryptedText is rejected, also when the
\* plaintext itself was empty.
decrypt(encryptedData, password, salt, iv) ==
    LET key == PBKDF2(password, salt)
        decryptedText == IF key = encryptedData.key /\ iv = encryptedData.iv
                         THEN encryptedData.pt ELSE ""
    IN  IF decryptedText = "" THEN [ok |-> FALSE, text |-> ""]
        ELSE [ok |-> TRUE, text |-> decryptedText]

(***************************************************************************)
(* State                                                                   *)
(***************************************************************************)
VARIABLES
    \* IndexPopup (React state)
    currentScreen, generatedMnemonic, derivedPrivateKey, derivedAddress,
    lastUnlock,
    \* chrome.storage.local: vault keys
    walletData, walletInitialized,
    \* console output that carries a secret value
    consoleLog,
    \* AccountService statics and their storage keys
    accounts, accountIndex, acctMnemonic,
    stAccounts, stMnemonic, stAccountIndex,
    \* chrome.storage.local: 'transaction_history'
    ledger,
    \* the chain as seen through the provider
    chain,
    \* asynchronous calls in flight, one record per call
    proc,
    \* TransactionMonitorService
    isMonitoring, monitoringInterval, timers, listeners, lastEmit,
    \* what the last signAndSendTransaction / checkTransaction returned
    sndRet, chkRet,
    \* UnlockWallet (React state) and the clock it reads
    attempts, lockoutTime, now,
    \* history: the end of the lockout UnlockWallet declared last
    cooldownEnd,
    \* the latest call of a service function that keeps no state: its
    \* arguments, what the chain client was asked, and how it ended
    svcCall,
    \* history: the calls the subscribers have received, as
    \* <<event, callback, hash>>, kept by GetRecordNoted only
    received,
    \* TransactionSyncService: its two fields, the calls of
    \* syncTransactionsFromChain / incrementalSync in flight, the height of
    \* the chain, and how the call that ended in the latest step ended
    issyncing, lastSyncBlock, syncProc, blockHeight, syncRet

popupVars == <<currentScreen, generatedMnemonic, derivedPrivateKey,
               derivedAddress>>
vaultStore == <<walletData, walletInitialized>>
acctVars == <<accounts, accountIndex, acctMnemonic>>
acctStore == <<stAccounts, stMnemonic, stAccountIndex>>
monitorVars == <<isMonitoring, monitoringInterval, timers, listeners, lastEmit>>
txVars == <<chain, proc, monitorVars, sndRet, chkRet>>
ledgerVars == <<ledger, txVars>>
unlockVars == <<attempts, lockoutTime, now, cooldownEnd>>
svcCallVars == <<svcCall>>
syncVars == <<issyncing, lastSyncBlock, syncProc, blockHeight, syncRet>>
svcVars == <<svcCallVars, received, syncVars>>
walletVars == <<popupVars, lastUnlock, vaultStore, consoleLog, acctVars,
               acctStore, unlockVars, svcVars>>
vars == <<walletVars, ledgerVars>>

NoWalletData == [kind |-> "none", encryptedMnemonic |-> NoCipher,
                 encryptedPrivateKey |-> NoCipher]
TestWalletData == [kind |-> "test", encryptedMnemonic |-> NoCipher,
                   encryptedPrivateKey |-> NoCipher]

\* StorageService.isWalletInitialized
isWalletInitialized ==
    walletInitialized = TRUE /\ walletData.kind # "none"

\* The outcome of IndexPopup.handleUnlock on a stored value.
UnlockOutcome(stored, password) ==
    IF stored.kind = "none" THEN [outcome |-> "no_wallet_data", mnemonic |-> "",
                                  privateKey |-> "", address |-> ""]
    ELSE IF stored.kind = "test" THEN [outcome |-> "type_error", mnemonic |-> "",
                                       privateKey |-> "", address |-> ""]
    ELSE
      LET dm == decrypt(stored.encryptedMnemonic.encryptedData, password,
                        stored.encryptedMnemonic.salt, stored.encryptedMnemonic.iv)
          dk == decrypt(stored.encryptedPrivateKey.encryptedData, password,
                        stored.encryptedPrivateKey.salt, stored.encryptedPrivateKey.iv)
      IN  IF ~dm.ok \/ ~dk.ok \/ privateKeyToAddress(dk.text) = "throw"
          THEN [outcome |-> "decrypt_failed", mnemonic |-> "",
                privateKey |-> "", address |-> ""]
          ELSE [outcome |-> "ok", mnemonic |-> dm.text, privateKey |-> dk.text,
                address |-> privateKeyToAddress(dk.text)]

NoStoredAccounts == [set |-> FALSE, list |-> <<>>]

(***************************************************************************)
(* IndexPopup                                                              *)
(***************************************************************************)
Screens == {"welcome", "create", "mnemonic", "verify", "password", "success",
            "import", "import-password", "main", "unlock"}

\* lastUnlock holds how the handleUnlock call of the latest step ended
\* (resolved or rejected, and with which password); "none" after any other
\* step.
NoUnlock == [pw |-> "", outcome |-> "none"]

\* useState defaults followed by checkWalletStatus on mount: the popup is
\* opened (again) and its React state starts afresh.
\* UnlockWallet is mounted: its state takes the useState initial values
UnlockWalletMounted ==
    /\ attempts' = 0
    /\ lockoutTime' = 0
    /\ UNCHANGED <<now, cooldownEnd>>

\* a step of the popup outside UnlockWallet: the component keeps its state
\* while the unlock screen stays, and is unmounted when the screen changes
UnlockWalletKept ==
    IF currentScreen = "unlock" /\ currentScreen' = "unlock"
    THEN UNCHANGED unlockVars
    ELSE UnlockWalletMounted

OpenPopup ==
    /\ currentScreen' = IF isWalletInitialized THEN "unlock" ELSE "welcome"
    /\ generatedMnemonic' = ""
    /\ derivedPrivateKey' = ""
    /\ derivedAddress' = ""
    /\ lastUnlock' = NoUnlock
    /\ UnlockWalletMounted
    /\ UNCHANGED svcVars
    /\ accounts' = <<>>
    /\ accountIndex' = 0
    /\ acctMnemonic' = ""
    /\ UNCHANGED <<vaultStore, consoleLog, acctStore, ledgerVars>>

\* the refresh button of the welcome screen
checkWalletStatus ==
    /\ currentScreen = "welcome"
    /\ currentScreen' = IF isWalletInitialized THEN "unlock" ELSE "welcome"
    /\ UNCHANGED <<generatedMnemonic, derivedPrivateKey, derivedAddress,
                   vaultStore, consoleLog, acctVars, acctStore,
                   ledgerVars>>
    /\ lastUnlock' = NoUnlock
    /\ UnlockWalletKept
    /\ UNCHANGED svcVars

\* setCurrentScreen from the buttons that only navigate
Navigate ==
    /\ \E edge \in {<<"welcome", "create">>, <<"welcome", "import">>,
                     <<"create", "welcome">>, <<"mnemonic", "create">>,
                     <<"mnemonic", "verify">>, <<"verify", "mnemonic">>,
                     <<"verify", "password">>, <<"password", "verify">>,
                     <<"import", "welcome">>, <<"import-password", "import">>,
                     <<"unlock", "welcome">>} :
          /\ currentScreen = edge[1]
          /\ currentScreen' = edge[2]
    /\ UNCHANGED <<generatedMnemonic, derivedPrivateKey, derivedAddress,
                   vaultStore, consoleLog, acctVars, acctStore,
                   ledgerVars>>
    /\ lastUnlock' = NoUnlock
    /\ UnlockWalletKept
    /\ UNCHANGED svcVars

\* saveTestData writes the test object under the vault's own key
handleTestStorage ==
    /\ currentScreen = "welcome"
    /\ \E ok \in BOOLEAN :
          walletData' = IF ok THEN TestWalletData ELSE walletData
    /\ UNCHANGED <<popupVars, walletInitialized, consoleLog, acctVars,
                   acctStore, ledgerVars>>
    /\ lastUnlock' = NoUnlock
    /\ UnlockWalletKept
    /\ UNCHANGED svcVars

\* A faulty variant that removes the initialized flag and keeps the rest of
\* the store.
handleClearDataFlagOnly ==
    /\ currentScreen = "welcome"
    /\ walletInitialized' = FALSE
    /\ currentScreen' = "welcome"
    /\ UNCHANGED <<generatedMnemonic, derivedPrivateKey, derivedAddress,
                   walletData, consoleLog, acctVars, acctStore, ledgerVars>>
    /\ lastUnlock' = NoUnlock
    /\ UnlockWalletKept
    /\ UNCHANGED svcVars

\* StorageService.clearWalletData: chrome.storage.local.clear()
handleClearData ==
    /\ currentScreen = "welcome"
    /\ walletData' = NoWalletData
    /\ walletInitialized' = FALSE
    /\ stAccounts' = NoStoredAccounts
    /\ stMnemonic' = ""
    /\ stAccountIndex' = -1
    /\ ledger' = <<>>
    /\ currentScreen' = "welcome"
    /\ UNCHANGED <<generatedMnemonic, derivedPrivateKey, derivedAddress,
                   consoleLog, acctVars, txVars>>
    /\ lastUnlock' = NoUnlock
    /\ UnlockWalletKept
    /\ UNCHANGED svcVars

handleCreateWallet ==
    /\ currentScreen = "create"
    /\ \E mnemonic \in Mnemonics :
          LET privateKey == derivePrivateKeyFromMnemonic(mnemonic)
              address == privateKeyToAddress(privateKey)
          IN  /\ consoleLog' = consoleLog \cup ({mnemonic} \cap Secrets)
              /\ generatedMnemonic' = mnemonic
              /\ derivedPrivateKey' = privateKey
              /\ derivedAddress' = address
    /\ currentScreen' = "mnemonic"
    /\ UNCHANGED <<vaultStore, acctVars, acctStore, ledgerVars>>
    /\ lastUnlock' = NoUnlock
    /\ UnlockWalletKept
    /\ UNCHANGED svcVars

\* StorageService.saveEncryptedWallet: one set() of both keys
saveEncryptedWallet(encryptedMnemonic, encryptedPrivateKey) ==
    /\ walletData' = [kind |-> "vault", encryptedMnemonic |-> encryptedMnemonic,
                      encryptedPrivateKey |-> encryptedPrivateKey]
    /\ walletInitialized' = TRUE

handlePasswordSet ==
    /\ currentScreen = "password"
    /\ \E password \in Passwords, s1 \in Salts, s2 \in Salts,
          i1 \in IVs, i2 \in IVs, ok \in BOOLEAN :
          IF ok
          THEN /\ saveEncryptedWallet(
                    encrypt(generatedMnemonic, password, s1, i1),
                    encrypt(derivedPrivateKey, password, s2, i2))
               /\ currentScreen' = "success"
          ELSE UNCHANGED <<vaultStore, currentScreen>>
    /\ UNCHANGED <<generatedMnemonic, derivedPrivateKey, derivedAddress,
                   consoleLog, acctVars, acctStore, ledgerVars>>
    /\ lastUnlock' = NoUnlock
    /\ UnlockWalletKept
    /\ UNCHANGED svcVars

\* A faulty variant that lets the user continue to the wallet before it is saved.
handleWalletCreatedContinueEarly ==
    /\ currentScreen \in {"success", "password", "import-password"}
    /\ currentScreen' = "main"
    /\ UNCHANGED <<generatedMnemonic, derivedPrivateKey, derivedAddress,
                   vaultStore, consoleLog, acctVars, acctStore,
                   ledgerVars>>
    /\ lastUnlock' = NoUnlock
    /\ UnlockWalletKept
    /\ UNCHANGED svcVars

handleWalletCreatedContinue ==
    /\ currentScreen = "success"
    /\ currentScreen' = "main"
    /\ UNCHANGED <<generatedMnemonic, derivedPrivateKey, derivedAddress,
                   vaultStore, consoleLog, acctVars, acctStore,
                   ledgerVars>>
    /\ lastUnlock' = NoUnlock
    /\ UnlockWalletKept
    /\ UNCHANGED svcVars

\* IndexPopup.handleUnlock(password), without the component that calls it
handleUnlockWith(password) ==
    /\ currentScreen = "unlock"
    /\ LET r == UnlockOutcome(walletData, password)
       IN  /\ lastUnlock' = [pw |-> password, outcome |-> r.outcome]
           /\ IF r.outcome = "ok"
              THEN /\ generatedMnemonic' = r.mnemonic
                   /\ derivedPrivateKey' = r.privateKey
                   /\ derivedAddress' = r.address
                   /\ currentScreen' = "main"
              ELSE UNCHANGED <<generatedMnemonic, derivedPrivateKey,
                               derivedAddress, currentScreen>>
    /\ UNCHANGED <<vaultStore, consoleLog, acctVars, acctStore, ledgerVars>>

\* handleUnlock called with any password at any time
handleUnlock ==
    /\ \E password \in Passwords : handleUnlockWith(password)
    /\ UnlockWalletKept
    /\ UNCHANGED svcVars

\* ImportPrivateKey has validated the key and derived its address
handleImportSuccess ==
    /\ currentScreen = "import"
    /\ \E privateKey \in ImportKeys :
          /\ derivedPrivateKey' = privateKey
          /\ derivedAddress' = privateKeyToAddress(privateKey)
    /\ generatedMnemonic' = ImportedPlaceholder
    /\ currentScreen' = "import-password"
    /\ UNCHANGED <<vaultStore, consoleLog, acctVars, acctStore,
                   ledgerVars>>
    /\ lastUnlock' = NoUnlock
    /\ UnlockWalletKept
    /\ UNCHANGED svcVars

handleImportPasswordSet ==
    /\ currentScreen = "import-password"
    /\ \E password \in Passwords, s1 \in Salts, s2 \in Salts,
          i1 \in IVs, i2 \in IVs, ok \in BOOLEAN :
          IF ok
          THEN /\ saveEncryptedWallet(
                    encrypt("", password, s1, i1),
                    encrypt(derivedPrivateKey, password, s2, i2))
               /\ currentScreen' = "success"
          ELSE UNCHANGED <<vaultStore, currentScreen>>
    /\ UNCHANGED <<generatedMnemonic, derivedPrivateKey, derivedAddress,
                   consoleLog, acctVars, acctStore, ledgerVars>>
    /\ lastUnlock' = NoUnlock
    /\ UnlockWalletKept
    /\ UNCHANGED svcVars

onLockWallet ==
    /\ currentScreen = "main"
    /\ generatedMnemonic' = ""
    /\ derivedPrivateKey' = ""
    /\ derivedAddress' = ""
    /\ currentScreen' = "unlock"
    /\ UNCHANGED <<vaultStore, consoleLog, acctVars, acctStore,
                   ledgerVars>>
    /\ lastUnlock' = NoUnlock
    /\ UnlockWalletKept
    /\ UNCHANGED svcVars

(***************************************************************************)
(* UnlockWallet                                                            *)
(***************************************************************************)
\* lockoutTime is 0 for null
isInLockout == lockoutTime # 0 /\ now < lockoutTime

isMaxAttempts == attempts >= MaxAttempts

\* the unlock button (or Enter in the password field), which are disabled
\* while isMaxAttempts or isLocked; the popup's handleUnlock is awaited and
\* its rejection counted
UnlockWallet_handleUnlock ==
    /\ ~isMaxAttempts
    /\ ~isInLockout
    /\ \E password \in Passwords :
         /\ handleUnlockWith(password)
         /\ IF lastUnlock'.outcome = "ok"
            THEN /\ attempts' = 0
                 /\ lockoutTime' = 0
                 /\ UNCHANGED cooldownEnd
            ELSE LET newAttempts == attempts + 1
                 IN  /\ attempts' = newAttempts
                     /\ IF /\ lastUnlock'.outcome = "decrypt_failed"
                           /\ newAttempts >= MaxAttempts
                        THEN /\ lockoutTime' = now + lockoutDuration
                             /\ cooldownEnd' = now + lockoutDuration
                        ELSE UNCHANGED <<lockoutTime, cooldownEnd>>
    /\ UNCHANGED <<now, svcVars>>

\* the reset button, shown while isMaxAttempts or isLocked
resetAttempts ==
    /\ currentScreen = "unlock"
    /\ isMaxAttempts \/ isInLockout
    /\ attempts' = 0
    /\ lockoutTime' = 0
    /\ lastUnlock' = NoUnlock
    /\ UNCHANGED <<popupVars, vaultStore, consoleLog, acctVars, acctStore,
                   ledgerVars, now, cooldownEnd, svcVars>>

\* time passes
ClockTick ==
    /\ now + ClockStep <= MaxNow
    /\ now' = now + ClockStep
    /\ lastUnlock' = NoUnlock
    /\ UNCHANGED <<popupVars, vaultStore, consoleLog, acctVars, acctStore,
                   ledgerVars, attempts, lockoutTime, cooldownEnd,
                   svcVars>>

(***************************************************************************)
(* AccountService                                                          *)
(***************************************************************************)
Addresses == {"a1", "a2", "a3"}

\* StorageService.getItem returns result[key] || null, so a stored 0 or ""
\* reads as null; WalletTabs runs this on every render of the main screen.
AccountService_initialize ==
    /\ accounts' = IF stAccounts.set THEN stAccounts.list ELSE accounts
    /\ acctMnemonic' = IF stMnemonic # "" THEN stMnemonic ELSE acctMnemonic
    /\ accountIndex' = IF stAccountIndex > 0 THEN stAccountIndex ELSE accountIndex
    /\ UNCHANGED <<popupVars, lastUnlock, vaultStore, consoleLog, acctStore,
                   ledgerVars, unlockVars, svcVars>>

\* createAccountFromData followed by saveAccountsToStorage: three setItem
\* calls under Promise.all, each of which may be rejected by the store.
createAccountFromDataWith(address, mnemonic) ==
    /\ accountIndex < MaxAccounts
    /\ Len(accounts) < MaxAccounts
    /\ LET account == [address |-> address, name |-> accountIndex + 1,
                      index |-> accountIndex]
          newMnemonic == IF acctMnemonic = "" /\ mnemonic # ""
                         THEN mnemonic ELSE acctMnemonic
      IN  /\ consoleLog' = consoleLog \cup ({mnemonic, newMnemonic} \cap Secrets)
          /\ acctMnemonic' = newMnemonic
          /\ accountIndex' = accountIndex + 1
          /\ accounts' = Append(accounts, account)
          /\ \E ok1 \in BOOLEAN, ok2 \in BOOLEAN, ok3 \in BOOLEAN :
                /\ stAccounts' = IF ok1 THEN [set |-> TRUE, list |-> accounts']
                                 ELSE stAccounts
                /\ stMnemonic' = IF ok2 THEN newMnemonic ELSE stMnemonic
                /\ stAccountIndex' = IF ok3 THEN accountIndex + 1
                                     ELSE stAccountIndex
    /\ UNCHANGED <<popupVars, lastUnlock, vaultStore, ledgerVars, unlockVars, svcVars>>

createAccountFromData ==
    \E address \in Addresses, mnemonic \in Mnemonics \cup {""} :
        createAccountFromDataWith(address, mnemonic)

\* WalletTabs, the main screen: useEffect(() => AccountService.initialize())
\* after every render
WalletTabs_useEffect ==
    /\ currentScreen = "main"
    /\ AccountService_initialize

\* createAccountFromData for the account of the unlocked wallet
MainCreateAccount ==
    /\ currentScreen = "main"
    /\ createAccountFromDataWith(derivedAddress, generatedMnemonic)

\* the page that hosts the service is loaded again: the statics take their
\* declared initial values
ReloadAccountService ==
    /\ accounts' = <<>>
    /\ accountIndex' = 0
    /\ acctMnemonic' = ""
    /\ UNCHANGED <<popupVars, lastUnlock, vaultStore, consoleLog, acctStore,
                   ledgerVars, unlockVars, svcVars>>

(***************************************************************************)
(* Transaction ledger: records and the chain                               *)
(***************************************************************************)
NullRec == [hash |-> "", status |-> "", gasUsed |-> "", blockNumber |-> 0]

\* the block a transaction is mined in and the gas its receipt reports
BlockOf(h) == IF h = "h1" THEN 7 ELSE 8
ReceiptGas == "21000"

Mined(h) == chain[h] \in {"ok", "reverted"}

\* the record signAndSendTransaction builds from the transaction response;
\* it has no blockNumber, which 0 stands for
PendingRecord(h) ==
    [hash |-> h, status |-> "pending", gasUsed |-> "0", blockNumber |-> 0]

\* status: receipt.status === 1 ? 'success' : 'failed'
ReceiptStatus(r) == IF r = "ok" THEN "success" ELSE "failed"

\* the partial record trackTransaction / waitForTransaction build from a receipt
ReceiptUpdates(h, r) ==
    [status |-> ReceiptStatus(r), gasUsed |-> ReceiptGas,
     blockNumber |-> BlockOf(h)]

\* parseEtherscanTransactions for a mined transaction
ChainRecord(h) ==
    [hash |-> h, status |-> ReceiptStatus(chain[h]), gasUsed |-> ReceiptGas,
     blockNumber |-> BlockOf(h)]

\* records.findIndex((r) => r.hash === txHash); 0 stands for -1
findIndex(records, txHash) ==
    IF \E i \in 1..Len(records) : records[i].hash = txHash
    THEN CHOOSE i \in 1..Len(records) :
            /\ records[i].hash = txHash
            /\ \A j \in 1..(i - 1) : records[j].hash # txHash
    ELSE 0

\* records.find((r) => r.hash === txHash) || null
getTransactionRecord(records, txHash) ==
    IF findIndex(records, txHash) = 0 THEN NullRec
    ELSE records[findIndex(records, txHash)]

\* new Map(localTxs.map((tx) => [tx.hash, tx])).get(hash): the last entry wins
localTxMapGet(records, txHash) ==
    IF \E i \in 1..Len(records) : records[i].hash = txHash
    THEN records[CHOOSE i \in 1..Len(records) :
                    /\ records[i].hash = txHash
                    /\ \A j \in (i + 1)..Len(records) : records[j].hash # txHash]
    ELSE NullRec

\* { ...record, ...updates }
MergeRecord(record, updates) ==
    [f \in DOMAIN record |->
        IF f \in DOMAIN updates THEN updates[f] ELSE record[f]]

\* the list updateTransactionRecord writes back, from the list it read
updateTransactionRecord(records, txHash, updates) ==
    LET recordIndex == findIndex(records, txHash)
    IN  IF recordIndex = 0 THEN records
        ELSE [records EXCEPT ![recordIndex] = MergeRecord(@, updates)]

\* the list saveTransactionRecord writes back, from the list it read
saveTransactionRecord(existingRecords, record) ==
    <<record>> \o existingRecords

(***************************************************************************)
(* Asynchronous calls in flight                                            *)
(***************************************************************************)
Slots == 1..MaxInFlight

Idle == [kind |-> "idle", pc |-> "", h |-> "", old |-> "", queue |-> <<>>,
         rcpt |-> "", local |-> <<>>, snap |-> <<>>]

FreeSlot(s) ==
    /\ proc[s].kind = "idle"
    /\ \A t \in 1..(s - 1) : proc[t].kind # "idle"

NoEmit == [made |-> FALSE, by |-> "", h |-> "", receipt |-> FALSE,
           record |-> NullRec, old |-> "",
           statusCalls |-> <<>>, balanceCalls |-> <<>>]
NoRet == [called |-> FALSE, h |-> "", hash |-> "", error |-> "",
          record |-> NullRec]

\* lastEmit, sndRet and chkRet describe the latest step only
Quiet ==
    /\ lastEmit' = NoEmit
    /\ sndRet' = NoRet
    /\ chkRet' = NoRet

\* A faulty variant without the try/catch around the callback: the first
\* callback that throws ends the forEach.
emitTransactionStatusChangeUncaught(transaction, oldStatus) ==
    LET list == listeners.statusChange
        Thrower(i) == list[i] \in ThrowingCallbacks
        last == IF \E i \in 1..Len(list) : Thrower(i)
                THEN CHOOSE i \in 1..Len(list) :
                        Thrower(i) /\ \A j \in 1..(i - 1) : ~Thrower(j)
                ELSE Len(list)
    IN  [i \in 1..last |->
            [callback |-> list[i], transaction |-> transaction,
             oldStatus |-> oldStatus]]

\* listeners.forEach(callback => callback(transaction, oldStatus)): the
\* calls made, in order; a callback that throws does not stop the others
emitTransactionStatusChange(transaction, oldStatus) ==
    [i \in 1..Len(listeners.statusChange) |->
        [callback |-> listeners.statusChange[i], transaction |-> transaction,
         oldStatus |-> oldStatus]]

\* listeners.forEach(callback => callback(transaction))
emitBalanceUpdateNeeded(transaction) ==
    [i \in 1..Len(listeners.balanceUpdate) |->
        [callback |-> listeners.balanceUpdate[i], transaction |-> transaction]]

\* A faulty variant that notifies whenever trackTransaction returned a record.
StatusChangedAlways(updatedRecord, oldStatus) == updatedRecord # NullRec

\* updatedRecord && updatedRecord.status !== transaction.status
StatusChanged(updatedRecord, oldStatus) ==
    updatedRecord # NullRec /\ updatedRecord.status # oldStatus

\* what checkTransactionStatus / checkTransaction do with the result of
\* trackTransaction
Notification(kind, h, found, updatedRecord, oldStatus) ==
    [made |-> TRUE, by |-> kind, h |-> h, receipt |-> found,
     record |-> updatedRecord, old |-> oldStatus,
     statusCalls |-> IF StatusChanged(updatedRecord, oldStatus)
                     THEN emitTransactionStatusChange(updatedRecord, oldStatus)
                     ELSE <<>>,
     balanceCalls |-> IF /\ StatusChanged(updatedRecord, oldStatus)
                         /\ updatedRecord.status = "success"
                      THEN emitBalanceUpdateNeeded(updatedRecord) ELSE <<>>]

\* the tick goes on with the next pending record of its snapshot
TickNext(p) ==
    IF p.queue = <<>> THEN Idle
    ELSE [p EXCEPT !.pc = "receipt", !.h = Head(p.queue), !.old = "pending",
                   !.queue = Tail(p.queue), !.rcpt = "", !.local = <<>>]

\* syncWithLocalStorage goes on with the next chain transaction that needs
\* a save or an update, judged against the snapshot it took at the start
RECURSIVE SyncNext(_)
SyncNext(p) ==
    IF p.queue = <<>> THEN Idle
    ELSE LET chainTx == ChainRecord(Head(p.queue))
             localTx == localTxMapGet(p.snap, chainTx.hash)
             rest == [p EXCEPT !.queue = Tail(p.queue), !.h = chainTx.hash,
                               !.local = <<>>]
         IN  IF localTx = NullRec THEN [rest EXCEPT !.pc = "saveRead"]
             ELSE IF localTx.status = "pending" /\ chainTx.status # "pending"
             THEN [rest EXCEPT !.pc = "updRead", !.rcpt = chain[chainTx.hash]]
             ELSE SyncNext(rest)

\* what a call does once trackTransaction has returned updatedRecord
AfterTrack(s, found, updatedRecord) ==
    LET p == proc[s]
    IN  /\ sndRet' = NoRet
        /\ CASE p.kind = "tick" ->
                  /\ lastEmit' = Notification("tick", p.h, found, updatedRecord, p.old)
                  /\ chkRet' = NoRet
                  /\ proc' = [proc EXCEPT ![s] = TickNext(p)]
             [] p.kind = "check" ->
                  /\ lastEmit' = Notification("check", p.h, found, updatedRecord, p.old)
                  /\ chkRet' = [NoRet EXCEPT !.called = TRUE, !.h = p.h,
                                             !.record = updatedRecord]
                  /\ proc' = [proc EXCEPT ![s] = Idle]
             [] OTHER ->
                  /\ lastEmit' = NoEmit
                  /\ chkRet' = NoRet
                  /\ proc' = [proc EXCEPT ![s] = Idle]

(***************************************************************************)
(* TransactionService                                                      *)
(***************************************************************************)
\* signAndSendTransaction up to wallet.sendTransaction being awaited: the
\* key has a wrong length, the provider is not connected, or the wallet
\* cannot be built from the key
SendBegin ==
    /\ \E h \in Hashes : chain[h] = "unsent"
    /\ \E s \in Slots,
          outcome \in {"ok", "INVALID_ADDRESS", "PROVIDER_NOT_CONNECTED",
                       "TRANSACTION_FAILED"} :
         /\ FreeSlot(s)
         /\ IF outcome = "ok"
            THEN /\ proc' = [proc EXCEPT ![s] = [Idle EXCEPT !.kind = "send",
                                                            !.pc = "broadcast"]]
                 /\ Quiet
            ELSE /\ sndRet' = [NoRet EXCEPT !.called = TRUE,
                                           !.error = outcome]
                 /\ lastEmit' = NoEmit
                 /\ chkRet' = NoRet
                 /\ UNCHANGED proc
    /\ UNCHANGED <<walletVars, ledger, chain, isMonitoring, monitoringInterval, timers,
                   listeners>>

\* A faulty variant that writes the pending record before the network has
\* taken the transaction.
SendBroadcastRecordsFirst(s) ==
    /\ proc[s].kind = "send" /\ proc[s].pc = "broadcast"
    /\ \E outcome \in {"ok", "INSUFFICIENT_FUNDS", "USER_REJECTED",
                       "TRANSACTION_FAILED"} :
         IF outcome = "ok"
         THEN \E h \in Hashes :
                  /\ chain[h] = "unsent"
                  /\ (h = "h1" \/ chain["h1"] # "unsent")
                  /\ chain' = [chain EXCEPT ![h] = "mempool"]
                  /\ proc' = [proc EXCEPT ![s] = [@ EXCEPT !.pc = "saveRead",
                                                          !.h = h]]
                  /\ Quiet
                  /\ UNCHANGED ledger
         ELSE /\ sndRet' = [NoRet EXCEPT !.called = TRUE, !.error = outcome]
              /\ lastEmit' = NoEmit
              /\ chkRet' = NoRet
              /\ proc' = [proc EXCEPT ![s] = Idle]
              /\ ledger' = IF Len(ledger) < MaxLedger
                           THEN saveTransactionRecord(ledger, PendingRecord("h1"))
                           ELSE ledger
              /\ UNCHANGED chain
    /\ UNCHANGED <<walletVars, isMonitoring, monitoringInterval, timers, listeners>>

\* wallet.sendTransaction settles: the network took the transaction, or not
SendBroadcast(s) ==
    /\ proc[s].kind = "send" /\ proc[s].pc = "broadcast"
    /\ \E outcome \in {"ok", "INSUFFICIENT_FUNDS", "USER_REJECTED",
                       "TRANSACTION_FAILED"} :
         IF outcome = "ok"
         THEN \E h \in Hashes :
                  /\ chain[h] = "unsent"
                  /\ (h = "h1" \/ chain["h1"] # "unsent")
                  /\ chain' = [chain EXCEPT ![h] = "mempool"]
                  /\ proc' = [proc EXCEPT ![s] = [@ EXCEPT !.pc = "saveRead",
                                                          !.h = h]]
                  /\ Quiet
         ELSE /\ sndRet' = [NoRet EXCEPT !.called = TRUE, !.error = outcome]
              /\ lastEmit' = NoEmit
              /\ chkRet' = NoRet
              /\ proc' = [proc EXCEPT ![s] = Idle]
              /\ UNCHANGED chain
    /\ UNCHANGED <<walletVars, ledger, isMonitoring, monitoringInterval, timers,
                   listeners>>

\* saveTransactionRecord: await getTransactionHistory()
SaveRead(s) ==
    /\ proc[s].pc = "saveRead"
    /\ proc' = [proc EXCEPT ![s] = [@ EXCEPT !.pc = "saveWrite",
                                            !.local = ledger]]
    /\ Quiet
    /\ UNCHANGED <<walletVars, ledger, chain, isMonitoring, monitoringInterval, timers,
                   listeners>>

\* saveTransactionRecord: await setItem(...), whose rejection is only logged;
\* signAndSendTransaction then returns the hash, syncWithLocalStorage goes on
SaveWrite(s) ==
    /\ proc[s].pc = "saveWrite"
    /\ Len(proc[s].local) < MaxLedger
    /\ LET p == proc[s]
           record == IF p.kind = "send" THEN PendingRecord(p.h)
                     ELSE ChainRecord(p.h)
       IN  /\ \E ok \in BOOLEAN :
                ledger' = IF ok THEN saveTransactionRecord(p.local, record)
                          ELSE ledger
           /\ IF p.kind = "send"
              THEN /\ sndRet' = [NoRet EXCEPT !.called = TRUE, !.hash = p.h]
                   /\ proc' = [proc EXCEPT ![s] = Idle]
              ELSE /\ sndRet' = NoRet
                   /\ proc' = [proc EXCEPT ![s] = SyncNext(p)]
    /\ lastEmit' = NoEmit
    /\ chkRet' = NoRet
    /\ UNCHANGED <<walletVars, chain, isMonitoring, monitoringInterval, timers,
                   listeners>>

\* a caller outside the monitor (TransactionStatus, TransactionHistory)
\* calls trackTransaction for a hash
TrackBegin ==
    /\ \E s \in Slots, h \in Hashes :
         /\ FreeSlot(s)
         /\ chain[h] # "unsent"
         /\ proc' = [proc EXCEPT ![s] = [Idle EXCEPT !.kind = "track",
                                                     !.pc = "receipt", !.h = h]]
    /\ Quiet
    /\ UNCHANGED <<walletVars, ledger, chain, isMonitoring, monitoringInterval, timers,
                   listeners>>

\* trackTransaction: await getTransactionReceipt(txHash); without a receipt,
\* or when the provider throws, it returns null
TrackReceiptAs(s, outcome) ==
    /\ proc[s].pc = "receipt"
    /\ IF outcome = "answer" /\ Mined(proc[s].h)
       THEN /\ proc' = [proc EXCEPT ![s] = [@ EXCEPT !.pc = "updRead",
                                                    !.rcpt = chain[proc[s].h]]]
            /\ Quiet
       ELSE AfterTrack(s, FALSE, NullRec)
    /\ UNCHANGED <<walletVars, ledger, chain, isMonitoring, monitoringInterval, timers,
                   listeners>>

TrackReceipt(s) == \E outcome \in {"answer", "error"} : TrackReceiptAs(s, outcome)

\* updateTransactionRecord: await getTransactionHistory()
UpdateRead(s) ==
    /\ proc[s].pc = "updRead"
    /\ proc' = [proc EXCEPT ![s] = [@ EXCEPT !.pc = "updWrite",
                                            !.local = ledger]]
    /\ Quiet
    /\ UNCHANGED <<walletVars, ledger, chain, isMonitoring, monitoringInterval, timers,
                   listeners>>

\* updateTransactionRecord: the merge and await setItem(...), whose rejection
\* is only logged; nothing is written when the hash is not in the list read
UpdateWriteAs(s, ok) ==
    /\ proc[s].pc = "updWrite"
    /\ LET p == proc[s]
           updates == IF p.rcpt = "error" THEN [status |-> "failed"]
                      ELSE ReceiptUpdates(p.h, p.rcpt)
       IN  /\ ledger' = IF ok /\ findIndex(p.local, p.h) # 0
                        THEN updateTransactionRecord(p.local, p.h, updates)
                        ELSE ledger
           /\ proc' = [proc EXCEPT ![s] =
                  IF p.kind = "sync" THEN SyncNext(p)
                  ELSE IF p.kind = "wait" /\ p.rcpt = "error" THEN Idle
                  ELSE [p EXCEPT !.pc = "getRec", !.local = <<>>]]
    /\ Quiet
    /\ UNCHANGED <<walletVars, chain, isMonitoring, monitoringInterval, timers,
                   listeners>>

UpdateWrite(s) == \E ok \in BOOLEAN : UpdateWriteAs(s, ok)

\* trackTransaction / waitForTransaction: await getTransactionRecord(txHash),
\* and what the caller does with the record in the same turn
GetRecord(s) ==
    /\ proc[s].pc = "getRec"
    /\ AfterTrack(s, TRUE, getTransactionRecord(ledger, proc[s].h))
    /\ UNCHANGED <<walletVars, ledger, chain, isMonitoring, monitoringInterval, timers,
                   listeners>>

\* the calls of an emission as <<event, callback, hash>>
CallsOf(emit) ==
    {<<"statusChange", emit.statusCalls[i].callback,
       emit.statusCalls[i].transaction.hash>> :
          i \in 1..Len(emit.statusCalls)}
    \cup {<<"balanceUpdate", emit.balanceCalls[i].callback,
            emit.balanceCalls[i].transaction.hash>> :
          i \in 1..Len(emit.balanceCalls)}

\* GetRecord, with the calls it makes added to the history
GetRecordNoted(s) ==
    /\ proc[s].pc = "getRec"
    /\ AfterTrack(s, TRUE, getTransactionRecord(ledger, proc[s].h))
    /\ received' = received \cup CallsOf(lastEmit')
    /\ UNCHANGED <<popupVars, lastUnlock, vaultStore, consoleLog, acctVars,
                   acctStore, unlockVars, svcCallVars, syncVars, ledger, chain,
                   isMonitoring, monitoringInterval, timers, listeners>>

\* SendETH starts waitForTransaction(txHash) for a hash it has sent
WaitBegin ==
    /\ \E s \in Slots, h \in Hashes :
         /\ FreeSlot(s)
         /\ chain[h] # "unsent"
         /\ proc' = [proc EXCEPT ![s] = [Idle EXCEPT !.kind = "wait",
                                                     !.pc = "wait", !.h = h]]
    /\ Quiet
    /\ UNCHANGED <<walletVars, ledger, chain, isMonitoring, monitoringInterval, timers,
                   listeners>>

\* provider.waitForTransaction resolves with the receipt once it is mined
WaitResolve(s) ==
    /\ proc[s].kind = "wait" /\ proc[s].pc = "wait"
    /\ Mined(proc[s].h)
    /\ proc' = [proc EXCEPT ![s] = [@ EXCEPT !.pc = "updRead",
                                            !.rcpt = chain[proc[s].h]]]
    /\ Quiet
    /\ UNCHANGED <<walletVars, ledger, chain, isMonitoring, monitoringInterval, timers,
                   listeners>>

\* provider.waitForTransaction rejects (network error, timeout): the catch
\* block marks the record failed
WaitReject(s) ==
    /\ proc[s].kind = "wait" /\ proc[s].pc = "wait"
    /\ proc' = [proc EXCEPT ![s] = [@ EXCEPT !.pc = "updRead",
                                            !.rcpt = "error"]]
    /\ Quiet
    /\ UNCHANGED <<walletVars, ledger, chain, isMonitoring, monitoringInterval, timers,
                   listeners>>

(***************************************************************************)
(* TransactionService: building a transfer                                 *)
(***************************************************************************)
\* A text is a sequence of characters.
Digits == {"0", "1", "2", "3", "4", "5", "6", "7", "8", "9"}

Zeros(n) == [i \in 1..n |-> "0"]

EtherDecimals == 18
GweiDecimals == 9

NoCall == [fn |-> "", args |-> <<>>, error |-> "", result |-> <<>>,
           rpc |-> <<>>]

\* BigInt(text) for a text of digits, as its decimal digits without
\* leading zeros
RECURSIVE StripLeadingZeros(_)
StripLeadingZeros(digits) ==
    IF Len(digits) > 1 /\ Head(digits) = "0"
    THEN StripLeadingZeros(Tail(digits))
    ELSE digits

\* ethers.parseUnits(value, decimals): an optional sign, digits, an optional
\* point and digits; at least one digit; decimals beyond the unit must be
\* zeros. The result is the integer in the smallest unit, or a throw.
parseUnits(value, decimals) ==
    LET negative == Len(value) > 0 /\ value[1] = "-"
        body == IF negative THEN Tail(value) ELSE value
        points == {i \in 1..Len(body) : body[i] = "."}
        matches == /\ \A i \in 1..Len(body) : body[i] \in Digits \cup {"."}
                   /\ Cardinality(points) <= 1
        point == IF points = {} THEN Len(body) + 1
                 ELSE CHOOSE i \in points : TRUE
        whole == SubSeq(body, 1, point - 1)
        decimal == SubSeq(body, point + 1, Len(body))
        padded == IF Len(decimal) < decimals
                  THEN decimal \o Zeros(decimals - Len(decimal))
                  ELSE decimal
        digits == StripLeadingZeros(
                      (IF whole = <<>> THEN <<"0">> ELSE whole)
                          \o SubSeq(padded, 1, decimals))
    IN  IF \/ ~matches
           \/ Len(whole) + Len(decimal) = 0
           \/ \E i \in (decimals + 1)..Len(padded) : padded[i] # "0"
        THEN [throws |-> TRUE, negative |-> FALSE, digits |-> <<>>]
        ELSE [throws |-> FALSE, negative |-> negative /\ digits # <<"0">>,
              digits |-> digits]

\* bigint.toString()
BigIntToString(n) == IF n.negative THEN <<"-">> \o n.digits ELSE n.digits

\* the addresses ethers.isAddress accepts, among the recipients tried
WellFormedAddresses == {"0xA1", "0xA2"}
RecipientInputs == WellFormedAddresses \cup {"0xZZ", ""}

isAddress(to) == to \in WellFormedAddresses

AmountInputs ==
    {<<"0">>, <<"0", ".", "0">>, <<"-", "0">>, <<"-", "1">>,
     <<"-", "0", ".", "5">>, <<"1">>, <<"0", "1">>, <<"1", ".", "5">>,
     <<".", "5">>, <<"2", ".">>,
     <<"0", ".">> \o Zeros(EtherDecimals - 1) \o <<"1">>,
     <<"0", ".">> \o Zeros(EtherDecimals) \o <<"1">>,
     <<"1", ".", "5">> \o Zeros(EtherDecimals),
     <<>>, <<".">>, <<"a", "b", "c">>, <<"1", "e", "3">>, <<"1", ",", "5">>,
     <<" ", "1">>}

\* an absent or empty optional argument is the empty text
GasPriceInputs == {<<>>, <<"2", "0">>, <<"1", ".", "5">>}
GasLimitInputs == {<<>>, <<"2", "1", "0", "0", "0">>}

NoTransaction == [to |-> "", value |-> <<>>, gasLimit |-> <<>>,
                  gasPrice |-> <<>>]

\* A faulty variant that asks the chain client for a gas estimate before it
\* looks at the amount.
buildETHTransactionEstimatesFirst(from, to, amount, gasPrice, gasLimit) ==
    LET amountWei == parseUnits(amount, EtherDecimals)
    IN  IF ~isAddress(to)
        THEN [error |-> "INVALID_ADDRESS", result |-> NoTransaction,
              rpc |-> <<>>]
        ELSE IF amountWei.throws
        THEN [error |-> "TRANSACTION_FAILED", result |-> NoTransaction,
              rpc |-> <<"estimateGas">>]
        ELSE IF amountWei.negative \/ amountWei.digits = <<"0">>
        THEN [error |-> "INVALID_AMOUNT", result |-> NoTransaction,
              rpc |-> <<"estimateGas">>]
        ELSE [error |-> "",
              result |-> [to |-> to, value |-> BigIntToString(amountWei),
                          gasLimit |-> gasLimit, gasPrice |-> <<>>],
              rpc |-> <<"estimateGas">>]

\* buildETHTransaction: what it throws (a BlockchainError thrown inside is
\* passed on, anything else becomes TRANSACTION_FAILED) or returns, and the
\* requests it made to the chain client
buildETHTransaction(from, to, amount, gasPrice, gasLimit) ==
    LET amountWei == parseUnits(amount, EtherDecimals)
        price == parseUnits(gasPrice, GweiDecimals)
    IN  IF ~isAddress(to)
        THEN [error |-> "INVALID_ADDRESS", result |-> NoTransaction,
              rpc |-> <<>>]
        ELSE IF amountWei.throws
        THEN [error |-> "TRANSACTION_FAILED", result |-> NoTransaction,
              rpc |-> <<>>]
        ELSE IF amountWei.negative \/ amountWei.digits = <<"0">>
        THEN [error |-> "INVALID_AMOUNT", result |-> NoTransaction,
              rpc |-> <<>>]
        ELSE IF gasPrice # <<>> /\ price.throws
        THEN [error |-> "TRANSACTION_FAILED", result |-> NoTransaction,
              rpc |-> <<>>]
        ELSE [error |-> "",
              result |-> [to |-> to, value |-> BigIntToString(amountWei),
                          gasLimit |-> gasLimit,
                          gasPrice |-> IF gasPrice # <<>>
                                       THEN BigIntToString(price) ELSE <<>>],
              rpc |-> <<>>]

\* a caller builds a transfer
BuildCall ==
    /\ \E to \in RecipientInputs, amount \in AmountInputs,
          gasPrice \in GasPriceInputs, gasLimit \in GasLimitInputs :
         LET r == buildETHTransaction("0xA1", to, amount, gasPrice, gasLimit)
         IN  svcCall' = [fn |-> "buildETHTransaction",
                         args |-> [to |-> to, amount |-> amount,
                                   gasPrice |-> gasPrice,
                                   gasLimit |-> gasLimit],
                         error |-> r.error, result |-> r.result,
                         rpc |-> r.rpc]
    /\ UNCHANGED <<popupVars, lastUnlock, vaultStore, consoleLog, acctVars,
                   acctStore, unlockVars, ledgerVars, received, syncVars>>

(***************************************************************************)
(* Gas estimation and gas prices                                           *)
(***************************************************************************)
\* how the chain client stands when it is asked: no provider connected, the
\* endpoint unreachable, the node refusing the estimate, or answering
ProviderInputs == {"not_connected", "unreachable", "refuses", "answers"}

\* the transactions whose gas is estimated
EstimateInputs ==
    {[NoTransaction EXCEPT !.to = to, !.value = value] :
        to \in WellFormedAddresses,
        value \in {<<"1">>, <<"1">> \o Zeros(EtherDecimals)}}

defaultGasLimit == <<"2", "1", "0", "0", "0">>

\* BlockchainService.estimateGas: getCurrentProvider() and
\* provider.estimateGas(transaction) inside one try, whose catch throws
\* GAS_ESTIMATION_FAILED whatever was caught
BlockchainService_estimateGas(provider, transaction) ==
    LET thrown == CASE provider = "not_connected" -> "PROVIDER_NOT_CONNECTED"
                    [] provider = "unreachable" -> "NETWORK_ERROR"
                    [] provider = "refuses" -> "CALL_EXCEPTION"
                    [] OTHER -> ""
        rpc == IF provider = "not_connected" THEN <<>> ELSE <<"estimateGas">>
    IN  IF thrown # ""
        THEN [error |-> "GAS_ESTIMATION_FAILED", result |-> <<>>, rpc |-> rpc]
        ELSE [error |-> "", result |-> defaultGasLimit, rpc |-> rpc]

\* TransactionService.estimateGas: the same wrapping once more
estimateGas(provider, transaction) ==
    LET r == BlockchainService_estimateGas(provider, transaction)
    IN  IF r.error # ""
        THEN [r EXCEPT !.error = "GAS_ESTIMATION_FAILED"]
        ELSE r

EstimateCall ==
    /\ \E provider \in ProviderInputs, transaction \in EstimateInputs :
         LET r == estimateGas(provider, transaction)
         IN  svcCall' = [fn |-> "estimateGas",
                         args |-> [provider |-> provider,
                                   transaction |-> transaction],
                         error |-> r.error, result |-> r.result,
                         rpc |-> r.rpc]
    /\ UNCHANGED <<popupVars, lastUnlock, vaultStore, consoleLog, acctVars,
                   acctStore, unlockVars, ledgerVars, received, syncVars>>

\* decimal text of a natural number and back (BigInt(text), n.toString())
DigitOf(d) == CASE d = 0 -> "0" [] d = 1 -> "1" [] d = 2 -> "2" [] d = 3 -> "3"
                [] d = 4 -> "4" [] d = 5 -> "5" [] d = 6 -> "6" [] d = 7 -> "7"
                [] d = 8 -> "8" [] OTHER -> "9"

RECURSIVE NatToDigits(_)
NatToDigits(n) ==
    IF n < 10 THEN <<DigitOf(n)>>
    ELSE NatToDigits(n \div 10) \o <<DigitOf(n % 10)>>

RECURSIVE DigitsToNat(_)
DigitsToNat(ds) ==
    IF ds = <<>> THEN 0
    ELSE 10 * DigitsToNat(SubSeq(ds, 1, Len(ds) - 1))
           + (CHOOSE d \in 0..9 : DigitOf(d) = ds[Len(ds)])

RECURSIVE StripTrailingZeros(_)
StripTrailingZeros(str) ==
    IF Len(str) >= 2 /\ str[Len(str)] = "0" /\ str[Len(str) - 1] # "."
    THEN StripTrailingZeros(SubSeq(str, 1, Len(str) - 1))
    ELSE str

\* ethers.formatUnits(value, decimals) for value >= 0: pad to more than
\* `decimals` digits, put the point, drop the zeros at the end but one
formatUnits(value, decimals) ==
    LET str == IF Len(value) <= decimals
               THEN Zeros(decimals + 1 - Len(value)) \o value
               ELSE value
        index == Len(str) - decimals
    IN  StripTrailingZeros(SubSeq(str, 1, index) \o <<".">>
                             \o SubSeq(str, index + 1, Len(str)))

\* GAS_CONFIG.gasPriceMultipliers, in tenths
gasPriceMultipliers == [slow |-> 8, standard |-> 10, fast |-> 12]

estimatedTime == [slow |-> 300, standard |-> 180, fast |-> 60]

\* feeData.gasPrice when the node leaves it out
NoGasPrice == 0 - 1

\* the base fee samples the node answers with, in wei
BaseFeeSamples == 0..MaxBaseFee

\* Math.floor(Number(baseGasPrice) * multiplier): below 2^53 the double
\* product has the same floor as the exact one
FloorTimes(baseGasPrice, tenths) == (baseGasPrice * tenths) \div 10

\* BlockchainService.getGasPrices: everything thrown inside the try,
\* the missing provider and `!feeData.gasPrice` included, comes out as
\* GAS_ESTIMATION_FAILED; 0n is falsy
getGasPrices(provider, sample) ==
    LET rpc == IF provider = "not_connected" THEN <<>> ELSE <<"getFeeData">>
    IN  IF provider # "answers" \/ sample = NoGasPrice \/ sample = 0
        THEN [error |-> "GAS_ESTIMATION_FAILED", result |-> <<>>, rpc |-> rpc]
        ELSE [error |-> "",
              result |->
                [slow |-> formatUnits(NatToDigits(
                            FloorTimes(sample, gasPriceMultipliers.slow)),
                            GweiDecimals),
                 standard |-> formatUnits(NatToDigits(sample), GweiDecimals),
                 fast |-> formatUnits(NatToDigits(
                            FloorTimes(sample, gasPriceMultipliers.fast)),
                            GweiDecimals),
                 estimatedTime |-> estimatedTime],
              rpc |-> rpc]

GasPriceCall ==
    /\ \E provider \in ProviderInputs :
       \E sample \in IF provider = "answers"
                      THEN BaseFeeSamples \cup {NoGasPrice}
                      ELSE {NoGasPrice} :
         LET r == getGasPrices(provider, sample)
         IN  svcCall' = [fn |-> "getGasPrices",
                         args |-> [provider |-> provider, sample |-> sample],
                         error |-> r.error, result |-> r.result,
                         rpc |-> r.rpc]
    /\ UNCHANGED <<popupVars, lastUnlock, vaultStore, consoleLog, acctVars,
                   acctStore, unlockVars, ledgerVars, received, syncVars>>

(***************************************************************************)
(* TransactionSyncService                                                  *)
(***************************************************************************)
RECURSIVE SeqsUpTo(_, _)
SeqsUpTo(S, n) ==
    IF n = 0 THEN {<<>>}
    ELSE LET shorter == SeqsUpTo(S, n - 1)
         IN  shorter \cup {Append(q, x) : q \in shorter, x \in S}

\* syncWithLocalStorage(chainTxs) up to getTransactionHistory() being awaited;
\* the chain reports mined transactions, possibly one more than once
SyncBegin ==
    /\ \E s \in Slots,
          chainTxs \in SeqsUpTo({h \in Hashes : Mined(h)}, MaxChainTxs) :
         /\ FreeSlot(s)
         /\ chainTxs # <<>>
         /\ proc' = [proc EXCEPT ![s] = [Idle EXCEPT !.kind = "sync",
                                                     !.pc = "read",
                                                     !.queue = chainTxs]]
    /\ Quiet
    /\ UNCHANGED <<walletVars, ledger, chain, isMonitoring, monitoringInterval, timers,
                   listeners>>

\* syncWithLocalStorage: the history is read once and kept as localTxMap
SyncRead(s) ==
    /\ proc[s].kind = "sync" /\ proc[s].pc = "read"
    /\ proc' = [proc EXCEPT ![s] = SyncNext([@ EXCEPT !.snap = ledger])]
    /\ Quiet
    /\ UNCHANGED <<walletVars, ledger, chain, isMonitoring, monitoringInterval, timers,
                   listeners>>

\* callers of syncTransactionsFromChain / incrementalSync
SyncCallers == 1..MaxSyncCalls

SyncIdle == [pc |-> "", fromBlock |-> 0, currentBlock |-> 0]
NoSyncRet == [caller |-> 0, outcome |-> ""]

\* a run is between `this.issyncing = true` and the finally block
InRun(c) == syncProc[c].pc \in {"getBlockNumber", "sent", "received", "local"}

\* everything but the sync service
NotSync == <<popupVars, lastUnlock, vaultStore, consoleLog, acctVars,
             acctStore, unlockVars, svcCallVars, received, ledgerVars>>

\* the call of c ends: by the early return, by the thrown error (after the
\* finally block), or at the end of the try block
SyncReturns(c, outcome) ==
    /\ syncProc' = [syncProc EXCEPT ![c] = SyncIdle]
    /\ syncRet' = [caller |-> c, outcome |-> outcome]

\* A faulty variant whose early return sits inside the try block, so that
\* the finally block runs for it as well.
syncTransactionsFromChainReturnsInTry(c, fromBlock) ==
    IF issyncing
    THEN /\ SyncReturns(c, "skipped")
         /\ issyncing' = FALSE
         /\ UNCHANGED lastSyncBlock
    ELSE \E connected \in BOOLEAN :
           IF connected
           THEN /\ issyncing' = TRUE
                /\ syncProc' = [syncProc EXCEPT ![c] =
                       [pc |-> "getBlockNumber", fromBlock |-> fromBlock,
                        currentBlock |-> 0]]
                /\ syncRet' = NoSyncRet
                /\ UNCHANGED lastSyncBlock
           ELSE /\ SyncReturns(c, "threw")
                /\ issyncing' = FALSE
                /\ UNCHANGED lastSyncBlock

\* syncTransactionsFromChain up to its first await: the early return while
\* a run is in progress; otherwise the flag is set and getCurrentProvider()
\* either throws, which the finally block follows, or getBlockNumber() is
\* awaited
syncTransactionsFromChain(c, fromBlock) ==
    IF issyncing
    THEN /\ SyncReturns(c, "skipped")
         /\ UNCHANGED <<issyncing, lastSyncBlock>>
    ELSE \E connected \in BOOLEAN :
           IF connected
           THEN /\ issyncing' = TRUE
                /\ syncProc' = [syncProc EXCEPT ![c] =
                       [pc |-> "getBlockNumber", fromBlock |-> fromBlock,
                        currentBlock |-> 0]]
                /\ syncRet' = NoSyncRet
                /\ UNCHANGED lastSyncBlock
           ELSE /\ SyncReturns(c, "threw")
                /\ issyncing' = FALSE
                /\ UNCHANGED lastSyncBlock

\* a caller starts syncTransactionsFromChain(userAddress, fromBlock)
SyncCall ==
    /\ \E c \in SyncCallers, fromBlock \in {0} :
         /\ syncProc[c].pc = ""
         /\ syncTransactionsFromChain(c, fromBlock)
    /\ UNCHANGED <<NotSync, blockHeight>>

\* incrementalSync: the first sync asks for the block number itself, a
\* later one goes on from lastSyncBlock + 1
incrementalSync ==
    /\ \E c \in SyncCallers :
         /\ syncProc[c].pc = ""
         /\ IF lastSyncBlock = 0
            THEN /\ \E connected \in BOOLEAN :
                      IF connected
                      THEN /\ syncProc' = [syncProc EXCEPT ![c] =
                                 [SyncIdle EXCEPT !.pc = "firstBlockNumber"]]
                           /\ syncRet' = NoSyncRet
                      ELSE SyncReturns(c, "threw")
                 /\ UNCHANGED <<issyncing, lastSyncBlock>>
            ELSE syncTransactionsFromChain(c, lastSyncBlock + 1)
    /\ UNCHANGED <<NotSync, blockHeight>>

\* incrementalSync: await provider.getBlockNumber(), then the sync of the
\* latest 10000 blocks
IncrementalBlockNumber(c) ==
    /\ syncProc[c].pc = "firstBlockNumber"
    /\ \E answered \in BOOLEAN :
         IF answered
         THEN syncTransactionsFromChain(c,
                 IF blockHeight > 10000 THEN blockHeight - 10000 ELSE 0)
         ELSE /\ SyncReturns(c, "threw")
              /\ UNCHANGED <<issyncing, lastSyncBlock>>
    /\ UNCHANGED <<NotSync, blockHeight>>

\* the run of c throws: catch rethrows, finally clears the flag
RunThrows(c) ==
    /\ SyncReturns(c, "threw")
    /\ issyncing' = FALSE
    /\ UNCHANGED lastSyncBlock

\* await provider.getBlockNumber()
RunBlockNumber(c) ==
    /\ syncProc[c].pc = "getBlockNumber"
    /\ \E answered \in BOOLEAN :
         IF answered
         THEN /\ syncProc' = [syncProc EXCEPT ![c] =
                     [@ EXCEPT !.pc = "sent", !.currentBlock = blockHeight]]
              /\ syncRet' = NoSyncRet
              /\ UNCHANGED <<issyncing, lastSyncBlock>>
         ELSE RunThrows(c)
    /\ UNCHANGED <<NotSync, blockHeight>>

\* await getTransactionsByAddress(..., 'from' / 'to', ...): it returns no
\* transactions, or getCurrentProvider() throws in it
RunTransactionsByAddress(c) ==
    /\ syncProc[c].pc \in {"sent", "received"}
    /\ \E connected \in BOOLEAN :
         IF connected
         THEN /\ syncProc' = [syncProc EXCEPT ![c] =
                     [@ EXCEPT !.pc = IF @ = "sent" THEN "received"
                                      ELSE "local"]]
              /\ syncRet' = NoSyncRet
              /\ UNCHANGED <<issyncing, lastSyncBlock>>
         ELSE RunThrows(c)
    /\ UNCHANGED <<NotSync, blockHeight>>

\* await syncWithLocalStorage([]): the history is read and nothing is
\* written; then lastSyncBlock = currentBlock and the finally block
RunCompletes(c) ==
    /\ syncProc[c].pc = "local"
    /\ lastSyncBlock' = syncProc[c].currentBlock
    /\ issyncing' = FALSE
    /\ SyncReturns(c, "done")
    /\ UNCHANGED <<NotSync, blockHeight>>

\* the chain grows by a block
NewBlock ==
    /\ blockHeight < MaxBlock
    /\ blockHeight' = blockHeight + 1
    /\ syncRet' = NoSyncRet
    /\ UNCHANGED <<NotSync, issyncing, lastSyncBlock, syncProc>>

\* getSyncStatus()
getSyncStatus == [issyncing |-> issyncing, lastSyncBlock |-> lastSyncBlock]

(***************************************************************************)
(* TransactionMonitorService                                               *)
(***************************************************************************)
\* A faulty variant that registers a timer without looking at isMonitoring.
startMonitoringAgain ==
    /\ isMonitoring' = TRUE
    /\ monitoringInterval' = "interval"
    /\ timers' = timers + 1
    /\ Quiet
    /\ UNCHANGED <<walletVars, ledger, chain, proc, listeners>>

\* timers counts the intervals registered with setInterval and not cleared
startMonitoring ==
    /\ IF isMonitoring
       THEN UNCHANGED <<isMonitoring, monitoringInterval, timers>>
       ELSE /\ isMonitoring' = TRUE
            /\ monitoringInterval' = "interval"
            /\ timers' = timers + 1
    /\ Quiet
    /\ UNCHANGED <<walletVars, ledger, chain, proc, listeners>>

\* A faulty variant that resets the flag and leaves the interval registered.
stopMonitoringFlagOnly ==
    /\ isMonitoring' = FALSE
    /\ UNCHANGED <<monitoringInterval, timers>>
    /\ Quiet
    /\ UNCHANGED <<walletVars, ledger, chain, proc, listeners>>

stopMonitoring ==
    /\ timers' = IF monitoringInterval # "null" THEN timers - 1 ELSE timers
    /\ monitoringInterval' = "null"
    /\ isMonitoring' = FALSE
    /\ Quiet
    /\ UNCHANGED <<walletVars, ledger, chain, proc, listeners>>

\* cleanup(): stopMonitoring() and listeners.clear()
cleanup ==
    /\ timers' = IF monitoringInterval # "null" THEN timers - 1 ELSE timers
    /\ monitoringInterval' = "null"
    /\ isMonitoring' = FALSE
    /\ listeners' = [statusChange |-> <<>>, balanceUpdate |-> <<>>]
    /\ Quiet
    /\ UNCHANGED <<walletVars, ledger, chain, proc>>

onTransactionStatusChangeUpTo(max) ==
    /\ Len(listeners.statusChange) < max
    /\ \E callback \in Callbacks :
         listeners' = [listeners EXCEPT !.statusChange = Append(@, callback)]
    /\ Quiet
    /\ UNCHANGED <<walletVars, ledger, chain, proc, isMonitoring,
                   monitoringInterval, timers>>

onBalanceUpdateNeededUpTo(max) ==
    /\ Len(listeners.balanceUpdate) < max
    /\ \E callback \in Callbacks :
         listeners' = [listeners EXCEPT !.balanceUpdate = Append(@, callback)]
    /\ Quiet
    /\ UNCHANGED <<walletVars, ledger, chain, proc, isMonitoring,
                   monitoringInterval, timers>>

onTransactionStatusChange == onTransactionStatusChangeUpTo(MaxListeners)

onBalanceUpdateNeeded == onBalanceUpdateNeededUpTo(MaxListeners)

\* listeners.indexOf(callback), then splice(index, 1)
RemoveFirst(list, callback) ==
    IF \E i \in 1..Len(list) : list[i] = callback
    THEN LET index == CHOOSE i \in 1..Len(list) :
                         /\ list[i] = callback
                         /\ \A j \in 1..(i - 1) : list[j] # callback
         IN  SubSeq(list, 1, index - 1) \o SubSeq(list, index + 1, Len(list))
    ELSE list

removeListener ==
    /\ \E eventName \in {"statusChange", "balanceUpdate"}, callback \in Callbacks :
         listeners' = [listeners EXCEPT ![eventName] = RemoveFirst(@, callback)]
    /\ Quiet
    /\ UNCHANGED <<walletVars, ledger, chain, proc, isMonitoring,
                   monitoringInterval, timers>>

\* callbacks that call removeListener for their own event while they run:
\* cb3 removes itself, cb4 removes cb1
RemovingCallbacks == {"cb3", "cb4"}

RemovedBy(callback) ==
    CASE callback = "cb3" -> "cb3"
      [] callback = "cb4" -> "cb1"
      [] OTHER -> ""

\* Array.prototype.forEach over the listener array itself: the indexes
\* k..len of the length taken at the start are visited, an index beyond
\* the present end is passed over, and a splice made by a callback moves
\* the later callbacks down while the iteration goes on
RECURSIVE forEachFrom(_, _, _)
forEachFrom(list, k, len) ==
    IF k > len THEN [called |-> <<>>, list |-> list]
    ELSE IF k > Len(list) THEN forEachFrom(list, k + 1, len)
    ELSE LET callback == list[k]
             after == IF callback \in RemovingCallbacks
                      THEN RemoveFirst(list, RemovedBy(callback))
                      ELSE list
             rest == forEachFrom(after, k + 1, len)
         IN  [called |-> <<callback>> \o rest.called, list |-> rest.list]

\* listeners.forEach(callback => ...)
forEach(list) == forEachFrom(list, 1, Len(list))

\* registration of a callback of either kind
onTransactionStatusChangeAny ==
    /\ Len(listeners.statusChange) < MaxEmitListeners
    /\ \E callback \in Callbacks \cup RemovingCallbacks :
         listeners' = [listeners EXCEPT !.statusChange = Append(@, callback)]
    /\ Quiet
    /\ UNCHANGED <<walletVars, ledger, chain, proc, isMonitoring,
                   monitoringInterval, timers>>

onBalanceUpdateNeededAny ==
    /\ Len(listeners.balanceUpdate) < MaxEmitListeners
    /\ \E callback \in Callbacks \cup RemovingCallbacks :
         listeners' = [listeners EXCEPT !.balanceUpdate = Append(@, callback)]
    /\ Quiet
    /\ UNCHANGED <<walletVars, ledger, chain, proc, isMonitoring,
                   monitoringInterval, timers>>

\* the records trackTransaction can hand to the monitor
SettledRecords ==
    {MergeRecord(PendingRecord(h), ReceiptUpdates(h, r)) :
        h \in Hashes, r \in {"ok", "reverted"}}

\* checkTransactionStatus once the status has changed:
\* emitTransactionStatusChange, and emitBalanceUpdateNeeded after a success
EmitEvents ==
    /\ \E updatedRecord \in SettledRecords :
         LET status == forEach(listeners.statusChange)
             balance == IF updatedRecord.status = "success"
                        THEN forEach(listeners.balanceUpdate)
                        ELSE [called |-> <<>>, list |-> listeners.balanceUpdate]
         IN  /\ lastEmit' =
                   [NoEmit EXCEPT
                      !.made = TRUE, !.by = "tick", !.h = updatedRecord.hash,
                      !.receipt = TRUE, !.record = updatedRecord,
                      !.old = "pending",
                      !.statusCalls =
                          [i \in 1..Len(status.called) |->
                              [callback |-> status.called[i],
                               transaction |-> updatedRecord,
                               oldStatus |-> "pending"]],
                      !.balanceCalls =
                          [i \in 1..Len(balance.called) |->
                              [callback |-> balance.called[i],
                               transaction |-> updatedRecord]]]
             /\ listeners' = [statusChange |-> status.list,
                              balanceUpdate |-> balance.list]
    /\ sndRet' = NoRet
    /\ chkRet' = NoRet
    /\ UNCHANGED <<walletVars, ledger, chain, proc, isMonitoring,
                   monitoringInterval, timers>>

\* a registered interval fires: checkAllPendingTransactions starts, whether
\* or not an earlier run is still awaiting
TimerFire ==
    /\ timers > 0
    /\ \E s \in Slots :
         /\ FreeSlot(s)
         /\ proc' = [proc EXCEPT ![s] = [Idle EXCEPT !.kind = "tick",
                                                     !.pc = "read"]]
    /\ Quiet
    /\ UNCHANGED <<walletVars, ledger, chain, isMonitoring, monitoringInterval, timers,
                   listeners>>

\* checkAllPendingTransactions: await getTransactionHistory(), filter pending
TickRead(s) ==
    /\ proc[s].kind = "tick" /\ proc[s].pc = "read"
    /\ LET allTransactions == ledger
           IsPending(tx) == tx.status = "pending"
           pendingTransactions == SelectSeq(allTransactions, IsPending)
       IN  proc' = [proc EXCEPT ![s] =
              TickNext([@ EXCEPT !.queue =
                  [i \in 1..Len(pendingTransactions) |->
                      pendingTransactions[i].hash]])]
    /\ Quiet
    /\ UNCHANGED <<walletVars, ledger, chain, isMonitoring, monitoringInterval, timers,
                   listeners>>

\* checkTransaction(txHash) up to getTransactionRecord being awaited
CheckBegin ==
    /\ \E s \in Slots, h \in Hashes :
         /\ FreeSlot(s)
         /\ proc' = [proc EXCEPT ![s] = [Idle EXCEPT !.kind = "check",
                                                     !.pc = "getCur", !.h = h]]
    /\ Quiet
    /\ UNCHANGED <<walletVars, ledger, chain, isMonitoring, monitoringInterval, timers,
                   listeners>>

\* checkTransaction: currentRecord is read; unknown and settled records
\* return at once
CheckCurrent(s) ==
    /\ proc[s].kind = "check" /\ proc[s].pc = "getCur"
    /\ LET currentRecord == getTransactionRecord(ledger, proc[s].h)
       IN  IF currentRecord = NullRec \/ currentRecord.status # "pending"
           THEN /\ chkRet' = [NoRet EXCEPT !.called = TRUE, !.h = proc[s].h,
                                           !.record = currentRecord]
                /\ proc' = [proc EXCEPT ![s] = Idle]
           ELSE /\ chkRet' = NoRet
                /\ proc' = [proc EXCEPT ![s] = [@ EXCEPT !.pc = "receipt",
                                           !.old = currentRecord.status]]
    /\ lastEmit' = NoEmit
    /\ sndRet' = NoRet
    /\ UNCHANGED <<walletVars, ledger, chain, isMonitoring, monitoringInterval, timers,
                   listeners>>

(***************************************************************************)
(* Environment of the ledger                                               *)
(***************************************************************************)
\* a broadcast transaction is mined; its receipt never changes afterwards
Mine ==
    /\ \E h \in Hashes, r \in {"ok", "reverted"} :
         /\ chain[h] = "mempool"
         /\ chain' = [chain EXCEPT ![h] = r]
    /\ Quiet
    /\ UNCHANGED <<walletVars, ledger, proc, isMonitoring, monitoringInterval, timers,
                   listeners>>

\* the process stops and starts again: storage and chain stay, everything
\* in memory (calls in flight, timer, listeners) is gone
Restart ==
    /\ proc' = [s \in Slots |-> Idle]
    /\ isMonitoring' = FALSE
    /\ monitoringInterval' = "null"
    /\ timers' = 0
    /\ listeners' = [statusChange |-> <<>>, balanceUpdate |-> <<>>]
    /\ Quiet
    /\ UNCHANGED <<walletVars, ledger, chain>>

\* the process stops right after signAndSendTransaction returned a hash
StopAfterSend ==
    /\ sndRet.hash # ""
    /\ Restart

\* StorageService.clearWalletData: chrome.storage.local.clear() drops every key
clearWalletData ==
    /\ walletData' = NoWalletData
    /\ walletInitialized' = FALSE
    /\ stAccounts' = NoStoredAccounts
    /\ stMnemonic' = ""
    /\ stAccountIndex' = -1
    /\ ledger' = <<>>
    /\ Quiet
    /\ UNCHANGED <<popupVars, lastUnlock, consoleLog, acctVars, chain, proc,
                   isMonitoring, monitoringInterval, timers, listeners,
                   unlockVars, svcVars>>

(***************************************************************************)
(* Initial state and the wallet specification                              *)
(***************************************************************************)
Init ==
    /\ currentScreen = "welcome"
    /\ generatedMnemonic = ""
    /\ derivedPrivateKey = ""
    /\ derivedAddress = ""
    /\ lastUnlock = NoUnlock
    /\ walletData = NoWalletData
    /\ walletInitialized = FALSE
    /\ consoleLog = {}
    /\ accounts = <<>>
    /\ accountIndex = 0
    /\ acctMnemonic = ""
    /\ stAccounts = NoStoredAccounts
    /\ stMnemonic = ""
    /\ stAccountIndex = -1
    /\ ledger = <<>>
    /\ chain = [h \in Hashes |-> "unsent"]
    /\ proc = [s \in Slots |-> Idle]
    /\ isMonitoring = FALSE
    /\ monitoringInterval = "null"
    /\ timers = 0
    /\ listeners = [statusChange |-> <<>>, balanceUpdate |-> <<>>]
    /\ lastEmit = NoEmit
    /\ sndRet = NoRet
    /\ chkRet = NoRet
    /\ attempts = 0
    /\ lockoutTime = 0
    /\ now = 0
    /\ cooldownEnd = 0
    /\ svcCall = NoCall
    /\ received = {}
    /\ issyncing = FALSE
    /\ lastSyncBlock = 0
    /\ syncProc = [c \in SyncCallers |-> SyncIdle]
    /\ blockHeight = 1
    /\ syncRet = NoSyncRet

NextWallet ==
    \/ OpenPopup
    \/ checkWalletStatus
    \/ Navigate
    \/ handleTestStorage
    \/ handleClearData
    \/ handleCreateWallet
    \/ handlePasswordSet
    \/ handleWalletCreatedContinue
    \/ handleUnlock
    \/ handleImportSuccess
    \/ handleImportPasswordSet
    \/ onLockWallet

SpecWallet == Init /\ [][NextWallet]_vars

\* the service functions that keep no state
NextService ==
    \/ BuildCall
    \/ EstimateCall
    \/ GasPriceCall

SpecService == Init /\ [][NextService]_vars

\* the popup with the account service used from the main screen
NextLock ==
    \/ OpenPopup
    \/ Navigate
    \/ handleCreateWallet
    \/ handlePasswordSet
    \/ handleWalletCreatedContinue
    \/ handleUnlock
    \/ WalletTabs_useEffect
    \/ MainCreateAccount
    \/ onLockWallet

SpecLock == Init /\ [][NextLock]_vars

\* the popup with the unlock screen's own state and the clock
NextUnlock ==
    \/ OpenPopup
    \/ checkWalletStatus
    \/ Navigate
    \/ handleCreateWallet
    \/ handlePasswordSet
    \/ handleWalletCreatedContinue
    \/ UnlockWallet_handleUnlock
    \/ resetAttempts
    \/ ClockTick
    \/ handleImportSuccess
    \/ handleImportPasswordSet
    \/ onLockWallet

SpecUnlock == Init /\ [][NextUnlock]_vars

NextAccounts ==
    \/ AccountService_initialize
    \/ createAccountFromData
    \/ ReloadAccountService
    \/ clearWalletData

SpecAccounts == Init /\ [][NextAccounts]_vars

\* the ledger and its writers outside the monitor: a send, the wait that
\* follows it, and trackTransaction called from the interface
NextLedger ==
    \/ SendBegin
    \/ \E s \in Slots : SendBroadcast(s)
    \/ \E s \in Slots : SaveRead(s)
    \/ \E s \in Slots : SaveWrite(s)
    \/ TrackBegin
    \/ \E s \in Slots : TrackReceipt(s)
    \/ \E s \in Slots : UpdateRead(s)
    \/ \E s \in Slots : UpdateWrite(s)
    \/ \E s \in Slots : GetRecord(s)
    \/ WaitBegin
    \/ \E s \in Slots : WaitResolve(s)
    \/ \E s \in Slots : WaitReject(s)
    \/ Mine
    \/ clearWalletData

SpecLedger == Init /\ [][NextLedger]_vars

\* the status monitor: interval ticks, checkOne, subscribers, and the sends
\* that feed it
NextMonitor ==
    \/ SendBegin
    \/ \E s \in Slots : SendBroadcast(s)
    \/ \E s \in Slots : SaveRead(s)
    \/ \E s \in Slots : SaveWrite(s)
    \/ \E s \in Slots : TrackReceipt(s)
    \/ \E s \in Slots : UpdateRead(s)
    \/ \E s \in Slots : UpdateWrite(s)
    \/ \E s \in Slots : GetRecord(s)
    \/ startMonitoring
    \/ stopMonitoring
    \/ cleanup
    \/ onTransactionStatusChange
    \/ onBalanceUpdateNeeded
    \/ removeListener
    \/ TimerFire
    \/ \E s \in Slots : TickRead(s)
    \/ CheckBegin
    \/ \E s \in Slots : CheckCurrent(s)
    \/ Mine
    \/ Restart

SpecMonitor == Init /\ [][NextMonitor]_vars

\* one send, ticks and checkTransaction calls that may overlap, and the
\* subscribers' view of the calls they get
NextNotify ==
    \/ SendBegin
    \/ \E s \in Slots : SendBroadcast(s)
    \/ \E s \in Slots : SaveRead(s)
    \/ \E s \in Slots : SaveWrite(s)
    \/ \E s \in Slots : TrackReceipt(s)
    \/ \E s \in Slots : UpdateRead(s)
    \/ \E s \in Slots : UpdateWrite(s)
    \/ \E s \in Slots : GetRecordNoted(s)
    \/ startMonitoring
    \/ onTransactionStatusChange
    \/ onBalanceUpdateNeeded
    \/ TimerFire
    \/ \E s \in Slots : TickRead(s)
    \/ CheckBegin
    \/ \E s \in Slots : CheckCurrent(s)
    \/ Mine

SpecNotify == Init /\ [][NextNotify]_vars

\* calls of the sync service on a growing chain
NextSyncRuns ==
    \/ SyncCall
    \/ incrementalSync
    \/ \E c \in SyncCallers : IncrementalBlockNumber(c)
    \/ \E c \in SyncCallers : RunBlockNumber(c)
    \/ \E c \in SyncCallers : RunTransactionsByAddress(c)
    \/ \E c \in SyncCallers : RunCompletes(c)
    \/ NewBlock

SpecSyncRuns == Init /\ [][NextSyncRuns]_vars

\* emissions to callbacks that may remove listeners while they run
NextReentrant ==
    \/ onTransactionStatusChangeAny
    \/ onBalanceUpdateNeededAny
    \/ removeListener
    \/ EmitEvents

SpecReentrant == Init /\ [][NextReentrant]_vars

\* chain sync next to sends
NextSync ==
    \/ SendBegin
    \/ \E s \in Slots : SendBroadcast(s)
    \/ \E s \in Slots : SaveRead(s)
    \/ \E s \in Slots : SaveWrite(s)
    \/ \E s \in Slots : UpdateRead(s)
    \/ \E s \in Slots : UpdateWrite(s)
    \/ SyncBegin
    \/ \E s \in Slots : SyncRead(s)
    \/ Mine

SpecSync == Init /\ [][NextSync]_vars

\* recovery: sends, the process stopping right after a send returned, and
\* the monitor started again
NextRecovery ==
    \/ SendBegin
    \/ \E s \in Slots : SendBroadcast(s)
    \/ \E s \in Slots : SaveRead(s)
    \/ \E s \in Slots : SaveWrite(s)
    \/ StopAfterSend
    \/ startMonitoring
    \/ TimerFire
    \/ \E s \in Slots : TickRead(s)
    \/ \E s \in Slots : TrackReceipt(s)
    \/ \E s \in Slots : UpdateRead(s)
    \/ \E s \in Slots : UpdateWrite(s)
    \/ \E s \in Slots : GetRecord(s)
    \/ Mine

\* The monitor is started again, the interval keeps firing whatever else is
\* in flight, and every await settles; the chain mines what was broadcast,
\* and the provider answers and the store takes an update at least once when
\* asked again and again.
FairRecovery ==
    /\ WF_vars(startMonitoring)
    /\ SF_vars(TimerFire)
    /\ WF_vars(Mine)
    /\ \A s \in Slots :
         /\ WF_vars(SendBroadcast(s))
         /\ WF_vars(SaveRead(s))
         /\ WF_vars(SaveWrite(s))
         /\ WF_vars(TickRead(s))
         /\ WF_vars(UpdateRead(s))
         /\ WF_vars(GetRecord(s))
         /\ SF_vars(TrackReceiptAs(s, "answer"))
         /\ SF_vars(UpdateWriteAs(s, TRUE))

SpecRecovery == Init /\ [][NextRecovery]_vars /\ FairRecovery

\* the interval ticks with several subscribers per event
NextEmit ==
    \/ SendBegin
    \/ \E s \in Slots : SendBroadcast(s)
    \/ \E s \in Slots : SaveRead(s)
    \/ \E s \in Slots : SaveWrite(s)
    \/ startMonitoring
    \/ onTransactionStatusChangeUpTo(MaxEmitListeners)
    \/ onBalanceUpdateNeededUpTo(MaxEmitListeners)
    \/ TimerFire
    \/ \E s \in Slots : TickRead(s)
    \/ \E s \in Slots : TrackReceipt(s)
    \/ \E s \in Slots : UpdateRead(s)
    \/ \E s \in Slots : UpdateWrite(s)
    \/ \E s \in Slots : GetRecord(s)
    \/ Mine

SpecEmit == Init /\ [][NextEmit]_vars

(***************************************************************************)
(* Vault properties                                                        *)
(***************************************************************************)
\* the password and the private key a persisted vault was made from
VaultPassword(w) == w.encryptedPrivateKey.encryptedData.key[1]
VaultPrivateKey(w) == w.encryptedPrivateKey.encryptedData.pt
VaultMnemonic(w) == w.encryptedMnemonic.encryptedData.pt

\* C3: no plaintext mnemonic or private key is ever in the persistence store
\* or in a log: what is stored is ciphertext or non-secret data.
C3_NoPlaintextSecret ==
    /\ consoleLog \cap Secrets = {}
    /\ stMnemonic \notin Secrets
    /\ \A i \in 1..Len(stAccounts.list) :
          stAccounts.list[i].address \notin Secrets

C5_UnlockWithInitPassword ==
    [][(/\ lastUnlock'.outcome # "none"
        /\ walletData.kind = "vault"
        /\ lastUnlock'.pw = VaultPassword(walletData))
       => (/\ lastUnlock'.outcome = "ok"
           /\ derivedAddress' = privateKeyToAddress(VaultPrivateKey(walletData)))]_vars

\* the three states of the vault's life cycle
WalletState ==
    IF ~isWalletInitialized THEN "Uninitialized"
    ELSE IF currentScreen = "main" THEN "Unlocked"
    ELSE "Locked"

C6_MainHoldsVaultKey ==
    currentScreen = "main" =>
        /\ isWalletInitialized
        /\ walletData.kind = "vault"
        /\ derivedPrivateKey = VaultPrivateKey(walletData)
        /\ derivedAddress = privateKeyToAddress(derivedPrivateKey)

C6_Edges ==
    /\ (currentScreen' = "main" /\ currentScreen # "main") =>
          \/ /\ currentScreen = "unlock"
             /\ lastUnlock'.outcome = "ok"
             /\ lastUnlock'.pw = VaultPassword(walletData)
          \/ /\ currentScreen = "success"
             /\ isWalletInitialized
             /\ UNCHANGED <<generatedMnemonic, derivedPrivateKey, derivedAddress>>
    /\ (currentScreen = "main" /\ currentScreen' # "main") =>
          /\ currentScreen' = "unlock"
          /\ generatedMnemonic' = ""
          /\ derivedPrivateKey' = ""
          /\ derivedAddress' = ""
    /\ (isWalletInitialized /\ ~isWalletInitialized') =>
          /\ currentScreen = "welcome"
          /\ walletData' = NoWalletData
    /\ (~isWalletInitialized /\ isWalletInitialized') =>
          /\ currentScreen \in {"password", "import-password"}
          /\ currentScreen' = "success"

C14_InitializedIffVaultRecord ==
    isWalletInitialized <=> walletData.kind = "vault"

\* isWalletInitialized is false and handleUnlock fails for every password
C20_Wiped ==
    /\ ~isWalletInitialized
    /\ \A password \in Passwords :
          UnlockOutcome(walletData, password).outcome # "ok"

\* C20: the step that clears the wallet data leaves no vault record and no
\* initialized flag, so that isWalletInitialized is false and unlocking
\* fails for every password, and that stays so in every step except the one
\* that saves a wallet from the password screen of create or import.
C20_WipeErasesVault ==
    [][/\ handleClearData =>
             (walletData' = NoWalletData /\ walletInitialized' = FALSE /\ C20_Wiped')
       /\ (C20_Wiped /\ ~C20_Wiped') =>
             /\ currentScreen \in {"password", "import-password"}
             /\ walletData'.kind = "vault"
             /\ walletInitialized' = TRUE]_vars

\* a vault that some password unlocks is persisted and the clear button of
\* the welcome screen can be pressed
C20_Witness ==
    /\ isWalletInitialized
    /\ walletData.kind = "vault"
    /\ \E password \in Passwords :
          UnlockOutcome(walletData, password).outcome = "ok"
    /\ ENABLED handleClearData

\* C19: the step that locks the wallet leaves the popup without mnemonic,
\* private key and address, on the unlock screen, and leaves no mnemonic in
\* the account service either.
C19_LockLeavesNoSecret ==
    [][onLockWallet =>
          /\ currentScreen' = "unlock"
          /\ generatedMnemonic' = ""
          /\ derivedPrivateKey' = ""
          /\ derivedAddress' = ""
          /\ acctMnemonic' = ""]_vars

(***************************************************************************)
(* Unlock screen properties                                                *)
(***************************************************************************)
\* a step passes an unlock attempt to the vault only when no lockout that
\* was declared is still running
C11_BlockedStep ==
    lastUnlock'.outcome # "none" => ~(now < cooldownEnd)

\* once a declared lockout has run out, the unlock screen takes an attempt
C11_AdmittedAfterCooldown ==
    (currentScreen = "unlock" /\ cooldownEnd # 0 /\ now >= cooldownEnd)
        => (~isMaxAttempts /\ ~isInLockout)

\* C11: after the fifth wrong password in a row an unlock attempt reaches
\* the vault only when the cooldown has run out, whatever the user does in
\* between, and is taken again once it has run out.
C11_CooldownIsExact ==
    [][C11_BlockedStep]_vars /\ []C11_AdmittedAfterCooldown

(***************************************************************************)
(* Ledger and monitor properties                                           *)
(***************************************************************************)
Terminal(status) == status \in {"success", "failed"}

\* a call that is between the start and the end of trackTransaction for a
\* record of the monitor
Reconciling(p) ==
    /\ p.kind \in {"tick", "check"}
    /\ p.pc \in {"receipt", "updRead", "updWrite", "getRec"}

\* C1: a record whose status is success or failed keeps that status in every
\* step, as long as the record is in the ledger.
C1_TerminalStatusIsAbsorbing ==
    [][\A h \in Hashes :
          LET before == getTransactionRecord(ledger, h)
              after == getTransactionRecord(ledger', h)
          IN  (Terminal(before.status) /\ after # NullRec)
                  => after.status = before.status]_vars

\* C2: when signAndSendTransaction has returned a hash, the ledger holds the
\* pending record of that hash, with gasUsed 0 and no block number.
C2_ReturnedHashIsRecorded ==
    sndRet.hash # "" =>
        getTransactionRecord(ledger, sndRet.hash) = PendingRecord(sndRet.hash)

\* C12: no two records of the ledger have the same hash.
C12_HashesAreUnique ==
    \A i, j \in 1..Len(ledger) :
        i # j => ledger[i].hash # ledger[j].hash

BlockchainErrorTypes ==
    {"NETWORK_ERROR", "INSUFFICIENT_FUNDS", "INVALID_ADDRESS", "INVALID_AMOUNT",
     "GAS_ESTIMATION_FAILED", "TRANSACTION_FAILED", "CONTRACT_ERROR",
     "USER_REJECTED", "PROVIDER_NOT_CONNECTED"}

\* C13: the step in which signAndSendTransaction fails raises one of the
\* BlockchainError types and leaves the ledger as it is, and the only step
\* of a send that changes the ledger is the one that returns the hash, so a
\* send that fails has written nothing.
C13_FailedSendWritesNothing ==
    [][/\ (sndRet'.called /\ sndRet'.hash = "")
            => (ledger' = ledger /\ sndRet'.error \in BlockchainErrorTypes)
       /\ \A s \in Slots :
            (proc[s].kind = "send" /\ proc'[s] # proc[s] /\ ledger' # ledger)
                => (sndRet'.called /\ sndRet'.hash = proc[s].h)]_vars

\* a send has just been refused for insufficient funds while the ledger
\* holds a record
C13_Witness ==
    /\ sndRet.called
    /\ sndRet.error = "INSUFFICIENT_FUNDS"
    /\ ledger # <<>>

C8_NoOverlappingReconciliation ==
    \A s, t \in Slots :
        (s # t /\ Reconciling(proc[s]) /\ Reconciling(proc[t]))
            => proc[s].h # proc[t].h

\* C9: once signAndSendTransaction has returned a hash, with the monitor
\* started again, the chain answering and ticks firing, the record of that
\* hash eventually has status success or failed.
C9_ReturnedHashIsReconciled ==
    \A h \in Hashes :
        (sndRet.hash = h)
            ~> Terminal(getTransactionRecord(ledger, h).status)

\* C10: checkTransaction returns null exactly when the ledger has no record
\* of the hash, and otherwise the record the ledger holds.
C10_CheckOneReturnsTheRecord ==
    chkRet.called =>
        chkRet.record = getTransactionRecord(ledger, chkRet.h)

\* TransactionMonitorService.isMonitoringActive
isMonitoringActive == isMonitoring

C15_OneTimer ==
    /\ timers <= 1
    /\ isMonitoringActive <=> timers = 1
    /\ monitoringInterval # "null" <=> timers = 1

C15_RunningStep ==
    (isMonitoringActive /\ isMonitoringActive')
        => (timers' = timers /\ monitoringInterval' = monitoringInterval)

\* C15: at most one interval is registered, the monitor reports that it is
\* running exactly when one is registered, and a step that finds the monitor
\* running and leaves it running (startMonitoring on a running monitor)
\* registers nothing.
C15_StartIsIdempotent == []C15_OneTimer /\ [][C15_RunningStep]_vars

\* the monitor runs, its interval has fired, and startMonitoring can be
\* called again
C15_Witness ==
    /\ isMonitoringActive
    /\ timers = 1
    /\ \E s \in Slots : proc[s].kind = "tick"
    /\ ENABLED startMonitoring

C16_StoppedHasNoTimer ==
    ~isMonitoringActive => (timers = 0 /\ monitoringInterval = "null")

C16_StoppedStep ==
    /\ (~isMonitoringActive /\ ~isMonitoringActive')
          => /\ timers' = 0
             /\ \A s \in Slots :
                   proc'[s].kind = "tick" => proc[s].kind = "tick"
    /\ (~isMonitoringActive /\ isMonitoringActive') => startMonitoring

\* C16: a stopped monitor has no interval registered, whatever ticks are
\* still in flight; while the monitor stays stopped (stopMonitoring called
\* again, a tick in flight going on or finishing) no step registers an
\* interval or begins a tick, and the only step that makes it run again is
\* startMonitoring.
C16_StopIsImmediate == []C16_StoppedHasNoTimer /\ [][C16_StoppedStep]_vars

\* the monitor is stopped while a tick is reconciling a record
C16_Witness ==
    /\ ~isMonitoringActive
    /\ \E s \in Slots : proc[s].kind = "tick" /\ proc[s].h # ""
    /\ ENABLED stopMonitoring

\* the records a tick reconciles are the ones that were pending in the
\* ledger it read
C17_TickTakesPending ==
    \A s \in Slots :
        (proc[s].kind = "tick" /\ proc[s].pc = "read" /\ proc'[s].pc = "receipt")
            => \A h \in {proc'[s].h} \cup
                         {proc'[s].queue[i] : i \in 1..Len(proc'[s].queue)} :
                  getTransactionRecord(ledger, h).status = "pending"

\* a step of a tick or of checkTransaction leaves the status of every
\* settled record that stays in the ledger as it is
C17_MonitorKeepsSettled ==
    \A s \in Slots :
        (proc[s].kind \in {"tick", "check"} /\ proc'[s] # proc[s])
            => \A h \in Hashes :
                  LET before == getTransactionRecord(ledger, h)
                      after == getTransactionRecord(ledger', h)
                  IN  (Terminal(before.status) /\ after # NullRec)
                          => after.status = before.status

\* C17: with only signAndSendTransaction, the interval ticks and
\* checkTransaction writing the ledger, a tick reconciles only records that
\* were pending when it read the ledger, and no step of the monitor changes
\* the status of a record that is success or failed.
C17_TicksLeaveSettledRecords ==
    [][C17_TickTakesPending /\ C17_MonitorKeepsSettled]_vars

\* in an emission that called anybody, every subscriber of the event has
\* been called, the ones registered after a callback that throws included
C18_EveryoneIsCalled ==
    lastEmit.made =>
        /\ lastEmit.statusCalls # <<>> =>
              /\ Len(lastEmit.statusCalls) = Len(listeners.statusChange)
              /\ \A i \in 1..Len(listeners.statusChange) :
                    lastEmit.statusCalls[i].callback = listeners.statusChange[i]
        /\ lastEmit.balanceCalls # <<>> =>
              /\ Len(lastEmit.balanceCalls) = Len(listeners.balanceUpdate)
              /\ \A i \in 1..Len(listeners.balanceUpdate) :
                    lastEmit.balanceCalls[i].callback = listeners.balanceUpdate[i]
        /\ (lastEmit.statusCalls # <<>> /\ lastEmit.record.status = "success")
              => Len(lastEmit.balanceCalls) = Len(listeners.balanceUpdate)

\* a step of a tick stays with the record it is reconciling or goes on with
\* the next pending record it read, however the reconciliation ended
C18_TickGoesOn ==
    \A s \in Slots :
        (proc[s].kind = "tick" /\ proc[s].pc # "read" /\ proc'[s] # proc[s])
            => \/ /\ proc'[s].kind = "tick"
                  /\ proc'[s].h = proc[s].h
                  /\ proc'[s].queue = proc[s].queue
               \/ proc'[s] = TickNext(proc[s])

\* C18: a callback that throws does not keep the other subscribers of the
\* same emission from being called, and a reconciliation that fails does not
\* keep the tick from going on with the other pending records.
C18_ErrorsAbortNothingElse ==
    []C18_EveryoneIsCalled /\ [][C18_TickGoesOn]_vars

\* a tick has called a callback that throws and then the next subscriber,
\* and has gone on with its next pending record
C18_Witness ==
    /\ lastEmit.made
    /\ lastEmit.by = "tick"
    /\ Len(lastEmit.statusCalls) = 2
    /\ lastEmit.statusCalls[1].callback \in ThrowingCallbacks
    /\ \E s \in Slots :
         /\ proc[s].kind = "tick"
         /\ proc[s].pc = "receipt"
         /\ proc[s].h # lastEmit.h

(***************************************************************************)
(* Building and pricing properties                                         *)
(***************************************************************************)
\* the amounts that are zero or negative, told by their characters alone
ZeroOrNegativeAmounts ==
    {amount \in AmountInputs :
        /\ \A i \in 1..Len(amount) : amount[i] \in Digits \cup {".", "-"}
        /\ \E i \in 1..Len(amount) : amount[i] \in Digits
        /\ \/ amount[1] = "-"
           \/ \A i \in 1..Len(amount) : amount[i] \in {"0", "."}}

\* C21: building a transfer of a zero or negative amount ends in a
\* validation error, INVALID_AMOUNT when the recipient is well formed, and
\* no request has been made to the chain client.
C21_ZeroAmountRejectedBeforeChain ==
    (svcCall.fn = "buildETHTransaction"
        /\ svcCall.args.amount \in ZeroOrNegativeAmounts)
    => /\ svcCall.error = IF isAddress(svcCall.args.to)
                          THEN "INVALID_AMOUNT" ELSE "INVALID_ADDRESS"
       /\ svcCall.rpc = <<>>

\* a transfer of 0 ETH to a well-formed recipient has been refused
C21_Witness ==
    /\ svcCall.fn = "buildETHTransaction"
    /\ svcCall.args.amount = <<"0">>
    /\ isAddress(svcCall.args.to)
    /\ svcCall.error = "INVALID_AMOUNT"

\* the amounts tried that are numbers greater than 0 with at most 18
\* decimals, and what each is in wei
C22_Wei(amount) ==
    CASE amount \in {<<"1">>, <<"0", "1">>} -> <<"1">> \o Zeros(18)
      [] amount \in {<<"1", ".", "5">>, <<"1", ".", "5">> \o Zeros(18)}
            -> <<"1", "5">> \o Zeros(17)
      [] amount = <<".", "5">> -> <<"5">> \o Zeros(17)
      [] amount = <<"2", ".">> -> <<"2">> \o Zeros(18)
      [] amount = <<"0", ".">> \o Zeros(17) \o <<"1">> -> <<"1">>
      [] OTHER -> <<>>

\* a positive number with a nineteenth decimal, which wei cannot express
C22_BelowOneWei == <<"0", ".">> \o Zeros(18) \o <<"1">>

\* C22: a request with a malformed recipient, or with an amount that is
\* zero, negative or no number, is rejected with INVALID_ADDRESS or
\* INVALID_AMOUNT; a request that is returned carries the given recipient
\* and the given amount in wei.
C22_BuildValidates ==
    svcCall.fn = "buildETHTransaction" =>
        LET to == svcCall.args.to
            amount == svcCall.args.amount
        IN  /\ (\/ ~isAddress(to)
                \/ (C22_Wei(amount) = <<>> /\ amount # C22_BelowOneWei))
                    => svcCall.error \in {"INVALID_ADDRESS", "INVALID_AMOUNT"}
            /\ svcCall.error = ""
                    => /\ svcCall.result.to = to
                       /\ svcCall.result.value = C22_Wei(amount)

\* C22 without the texts that are no numbers
C22_NumbersOnly ==
    (svcCall.fn = "buildETHTransaction"
        /\ \/ C22_Wei(svcCall.args.amount) # <<>>
           \/ svcCall.args.amount \in ZeroOrNegativeAmounts
           \/ ~isAddress(svcCall.args.to))
    => C22_BuildValidates

\* C23: estimateGas ends in GAS_ESTIMATION_FAILED exactly when the node
\* refuses the estimate; with no provider connected or the endpoint
\* unreachable the caller gets a provider or network error.
C23_EstimationErrorIsDistinct ==
    svcCall.fn = "estimateGas" =>
        /\ svcCall.error = "GAS_ESTIMATION_FAILED"
              <=> svcCall.args.provider = "refuses"
        /\ svcCall.args.provider \in {"not_connected", "unreachable"}
              => svcCall.error \in {"PROVIDER_NOT_CONNECTED", "NETWORK_ERROR"}

\* the price in wei that a quoted gwei text stands for
C24_WeiOf(price) ==
    LET p == parseUnits(price, GweiDecimals)
    IN  IF p.throws \/ p.negative THEN NoGasPrice ELSE DigitsToNat(p.digits)

\* C24: for every base fee sample the node answers with, zero included,
\* the quote holds three prices with slow <= standard <= fast, standard
\* the sample itself, slow floor(0.8 x sample) and fast floor(1.2 x sample).
C24_QuoteIsOrdered ==
    (/\ svcCall.fn = "getGasPrices"
     /\ svcCall.args.provider = "answers"
     /\ svcCall.args.sample \in Nat) =>
        LET sample == svcCall.args.sample
        IN  /\ svcCall.error = ""
            /\ C24_WeiOf(svcCall.result.standard) = sample
            /\ C24_WeiOf(svcCall.result.slow) = (8 * sample) \div 10
            /\ C24_WeiOf(svcCall.result.fast) = (12 * sample) \div 10
            /\ C24_WeiOf(svcCall.result.slow)
                  <= C24_WeiOf(svcCall.result.standard)
            /\ C24_WeiOf(svcCall.result.standard)
                  <= C24_WeiOf(svcCall.result.fast)

\* the same for the samples above zero
C24_PositiveSamples ==
    (svcCall.fn = "getGasPrices" /\ svcCall.args.sample = 0)
        \/ C24_QuoteIsOrdered

(***************************************************************************)
(* Ledger writes under interleaving                                        *)
(***************************************************************************)
\* the partial record the call in slot s is about to merge
C25_Updates(s) ==
    IF proc[s].rcpt = "error" THEN [status |-> "failed"]
    ELSE ReceiptUpdates(proc[s].h, proc[s].rcpt)

\* `after` is `before` with at most the first record of hash txHash changed,
\* and of that record at most the fields named in updates
C25_IsMergeOf(before, after, txHash, updates) ==
    LET recordIndex == findIndex(before, txHash)
    IN  /\ Len(after) = Len(before)
        /\ \A j \in 1..Len(before) :
              IF j = recordIndex
              THEN \A f \in DOMAIN before[j] :
                      IF f \in DOMAIN updates
                      THEN after[j][f] \in {before[j][f], updates[f]}
                      ELSE after[j][f] = before[j][f]
              ELSE after[j] = before[j]

\* C25: when updateTransactionRecord completes, the ledger differs from
\* the ledger before only in the record with that hash, and there only in
\* the fields named in the update; the other records and their order are
\* the same, and without a record of that hash the ledger is the same.
C25_UpdateStepIsMerge ==
    \A s \in Slots :
        (proc[s].pc = "updWrite" /\ proc'[s] # proc[s]) =>
            C25_IsMergeOf(ledger, ledger', proc[s].h, C25_Updates(s))

C25_UpdateIsMerge == [][C25_UpdateStepIsMerge]_vars

\* the same measured against the list the call read
C25_MergeOfListReadStep ==
    \A s \in Slots :
        (proc[s].pc = "updWrite" /\ proc'[s] # proc[s] /\ ledger' # ledger) =>
            /\ C25_IsMergeOf(proc[s].local, ledger', proc[s].h,
                             C25_Updates(s))
            /\ findIndex(proc[s].local, proc[s].h) # 0

C25_MergeOfListRead == [][C25_MergeOfListReadStep]_vars

\* C27: a save of a new record and a status update of another record that
\* run interleaved lose neither write: the step that writes the history
\* back after an update leaves every record of another hash in the ledger
\* as it was, and the step that writes it back after a save leaves every
\* settled record of another hash as it was, so the new pending record and
\* the updated status are both there.
C27_WriteStepKeepsOthers ==
    \A s \in Slots :
        /\ (proc[s].pc = "updWrite" /\ proc'[s] # proc[s]) =>
              \A i \in 1..Len(ledger) :
                  ledger[i].hash # proc[s].h =>
                      \E j \in 1..Len(ledger') : ledger'[j] = ledger[i]
        /\ (proc[s].pc = "saveWrite" /\ proc'[s] # proc[s]) =>
              \A i \in 1..Len(ledger) :
                  (ledger[i].hash # proc[s].h /\ Terminal(ledger[i].status)) =>
                      \E j \in 1..Len(ledger') : ledger'[j] = ledger[i]

C27_NoLostWrite == [][C27_WriteStepKeepsOthers]_vars

\* C28: under overlapping ticks and checkTransaction calls, a statusChange
\* subscriber is called at most once for a record's change from pending to
\* a settled status, and a balanceUpdate subscriber at most once per
\* record: no call of a step repeats a call received before.
C28_NoRepeatedCallStep ==
    lastEmit'.made => CallsOf(lastEmit') \cap received = {}

C28_CalledAtMostOnce == [][C28_NoRepeatedCallStep]_vars

(***************************************************************************)
(* Runs of the sync service                                                *)
(***************************************************************************)
\* at most one run is active, and the flag is set exactly while one is
C29_OneRun ==
    /\ Cardinality({c \in SyncCallers : InRun(c)}) <= 1
    /\ getSyncStatus.issyncing <=> \E c \in SyncCallers : InRun(c)

\* a call made during a run returns with the ledger, lastSyncBlock and the
\* flag as they were; lastSyncBlock changes only in the step that ends a
\* run successfully, and that step and the one that ends a run by a throw
\* clear the flag
C29_RunStep ==
    /\ syncRet'.outcome = "skipped" =>
          /\ issyncing /\ issyncing'
          /\ UNCHANGED <<ledger, lastSyncBlock>>
          /\ \A c \in SyncCallers : InRun(c) => syncProc'[c] = syncProc[c]
    /\ lastSyncBlock' # lastSyncBlock => syncRet'.outcome = "done"
    /\ \A c \in SyncCallers :
          (InRun(c) /\ ~InRun(c)') =>
              /\ ~issyncing'
              /\ syncRet'.caller = c
              /\ syncRet'.outcome \in {"done", "threw"}

\* C29: at most one syncTransactionsFromChain run is active; a call made
\* during a run returns without touching the ledger, lastSyncBlock or the
\* in-progress flag; the flag is cleared when the run ends, by success or
\* by a throw; lastSyncBlock changes only when a run succeeds.
C29_SingleRun == []C29_OneRun /\ [][C29_RunStep]_vars

\* a call has just been turned away while the other caller's run is awaiting
\* the block number
C29_Witness ==
    /\ syncRet.outcome = "skipped"
    /\ issyncing
    /\ \E c \in SyncCallers :
          c # syncRet.caller /\ syncProc[c].pc = "getBlockNumber"

(***************************************************************************)
(* Account registry                                                        *)
(***************************************************************************)
\* C26: whatever createAccountFromData calls (with persistence writes that
\* fail or not) and loads from storage have happened, the accounts have
\* pairwise distinct derivation indexes, each is named by its index plus
\* one, and the next derivation index is above every index assigned.
C26_IndexesAreFresh ==
    /\ \A i \in 1..Len(accounts), j \in 1..Len(accounts) :
          i # j => accounts[i].index # accounts[j].index
    /\ \A i \in 1..Len(accounts) :
          /\ accounts[i].name = accounts[i].index + 1
          /\ accountIndex > accounts[i].index

(***************************************************************************)
(* Listeners removed during an emission                                    *)
(***************************************************************************)
\* how often callback is in a list of callbacks
C30_Count(list, callback) ==
    Cardinality({i \in 1..Len(list) : list[i] = callback})

C30_Called(calls) == [i \in 1..Len(calls) |-> calls[i].callback]

\* every registration of the list is called once, and nothing else
C30_CalledOnce(list, calls) ==
    \A callback \in Callbacks \cup RemovingCallbacks :
        C30_Count(C30_Called(calls), callback) = C30_Count(list, callback)

\* C30: in an emission every callback registered for the event when the
\* emission starts is invoked exactly once, also when a callback calls
\* removeListener, for itself or for another callback, during the emission.
C30_EmissionStep ==
    lastEmit'.made =>
        /\ C30_CalledOnce(listeners.statusChange, lastEmit'.statusCalls)
        /\ lastEmit'.record.status = "success" =>
              C30_CalledOnce(listeners.balanceUpdate, lastEmit'.balanceCalls)

C30_EveryoneCalledOnce == [][C30_EmissionStep]_vars

\* the same where none of the registered callbacks removes a listener
C30_QuietCallbacksStep ==
    (/\ lastEmit'.made
     /\ \A i \in 1..Len(listeners.statusChange) :
           listeners.statusChange[i] \notin RemovingCallbacks)
        => C30_CalledOnce(listeners.statusChange, lastEmit'.statusCalls)

C30_QuietCallbacks == [][C30_QuietCallbacksStep]_vars

====
